---- MODULE Spec2Model ----
(***************************************************************************)
(* Model of the smart-ticket-manager core:                                 *)
(*   - the Momence API client (class MomenceAPI): token lifecycle and the  *)
(*     401-aware data operations;                                          *)
(*   - the analyze-ticket edge function (routing decision) and the ticket  *)
(*     submission flow NewTicket.onSubmit that calls it.                   *)
(* Every async function is cut at its awaits: one action runs the code     *)
(* from one await to the next (or to the return).  A tail call             *)
(* `return this.op(args)` re-enters the same operation with the same       *)
(* arguments, so it is modelled as the task entering the operation again.  *)
(*   - getAllSessionsWithDetails: the page loop and the per-page fan-out   *)
(*     of detail fetches;                                                  *)
(*   - getMembershipStatus.                                                *)
(***************************************************************************)
EXTENDS Integers, Sequences, FiniteSets, TLC

VARIABLES
    creds,          \* MomenceAPI.authToken / username / password: is each one set
    accessToken,    \* MomenceAPI.accessToken
    refreshToken,   \* MomenceAPI.refreshToken
    issued,         \* token responses the auth endpoint has issued so far
    tasks,          \* the running invocations of client operations
    openAIApiKey,   \* analyze-ticket: is OPENAI_API_KEY configured
    fn,             \* analyze-ticket: the request being served and its response
    sub,            \* NewTicket.onSubmit: the submission in progress
    agg,            \* getAllSessionsWithDetails: the aggregation call in progress
    call,           \* a call of a pure method: its arguments and its result
    proxy,          \* momence-api: the request being served and its response
    search          \* MomenceClientSearch: the query, the debounce timer, the request

clientVars == <<creds, accessToken, refreshToken, issued, tasks>>
routingVars == <<openAIApiKey, fn, sub>>
otherVars == <<agg, call, proxy, search>>

vars == <<creds, accessToken, refreshToken, issued, tasks, openAIApiKey, fn, sub,
          agg, call, proxy, search>>

(***************************************************************************)
(* Bounds of the model.                                                    *)
(***************************************************************************)
NTasks == 1        \* invocation slots of the client (concurrent invocations)
Max401 == 2        \* 401 answers the server gives to one invocation
MaxIssued == 2     \* successful token responses of the auth endpoint
PageSize == 2      \* rows of a full page of sessions (the source asks for 200)
MaxPagesArg == 2   \* the largest maxPages given to getAllSessionsWithDetails
NConcurrent == 2   \* operations started together while no token is held
MaxTime == 4       \* the instants of time: 1..MaxTime
MaxMemberships == 2  \* the longest list of a member's active memberships
MaxVisits == 52    \* the largest visit count given to getActivityLevel
MaxCapacity == 3   \* the largest capacity and booking count of a session
MaxNameWords == 3  \* the words of a free location name
MaxDay == 2        \* the days on which a request is built: 1..MaxDay
MaxSecond == 2     \* the seconds of a day: 0..MaxSecond (86399 in the source)
NClients == 3      \* the members a user may select: 1..NClients
MaxInFlight == 2   \* searches sent and not yet answered
MaxQueryLen == 2   \* the longest text typed into the search box

TaskIds == 1..NTasks

(***************************************************************************)
(* JavaScript values.  A token is '' (EmptyString), undefined, or a        *)
(* positive number naming the token response it came from.                 *)
(***************************************************************************)
EmptyString == 0
Undefined == -1
Falsy(v) == v = EmptyString \/ v = Undefined
\* a || b
JsOr(a, b) == IF Falsy(a) THEN b ELSE a

(***************************************************************************)
(* The client operations and their empty values.                          *)
(***************************************************************************)
Ops == {"searchCustomers", "getCustomerById", "getCustomerBookings",
        "getSessions", "getSessionById"}

EmptyValue(op) ==
    CASE op = "searchCustomers"     -> "[]"
      [] op = "getCustomerById"     -> "null"
      [] op = "getCustomerBookings" -> "[]"
      [] op = "getSessions"         -> "emptyEnvelope"
      [] op = "getSessionById"      -> "null"

\* !this.authToken || !this.username || !this.password
CredsMissing == ~creds.authToken \/ ~creds.username \/ ~creds.password

\* The operations that begin with the "Early return if no credentials" test.
ChecksCredentials(op) == op \in {"searchCustomers", "getSessions", "getSessionById"}

\* The operations that test authenticate()'s result (authSuccess).
ChecksAuthSuccess(op) == op \in {"searchCustomers", "getSessions", "getSessionById"}

\* The operations that test refreshAccessToken()'s result (refreshSuccess).
ChecksRefreshSuccess(op) == op \in {"searchCustomers", "getSessions", "getSessionById"}

\* The operations that go on to further requests after the first data response.
HasFollowUpRequests(op) == op = "getCustomerById"

\* One invocation: the operation, where it is suspended, what it returned,
\* and what it has seen since the caller invoked it: the 401 answers, the
\* refresh and data requests it issued, how its latest token call
\* (authenticate or refreshAccessToken) ended, and whether any request of its
\* own got something else than a success response.  The counters count up to
\* the bounds of the model: Max401 answers, Max401 + 1 data requests.
IdleTask ==
    [op |-> "none", pc |-> "idle", result |-> "none",
     n401 |-> 0, refreshReqs |-> 0, dataReqs |-> 0, last |-> "none",
     failed |-> FALSE]

\* `return v` of an operation
Return(task, v) == [task EXCEPT !.pc = "done", !.result = v]

\* fetch(<data url>, { method: 'GET', authorization: Bearer accessToken })
IssueData(task) ==
    [task EXCEPT !.pc = "data_wait",
                 !.dataReqs = IF @ <= Max401 THEN @ + 1 ELSE @]

\* Faulty variant: an operation whose authenticate() failed tries the refresh
\* grant before giving up.
AfterAuthenticate_RefreshesOnFailure(task, authSuccess) ==
    LET after == [task EXCEPT !.last = IF authSuccess THEN "authenticated"
                                                      ELSE "authFailed",
                              !.failed = @ \/ ~authSuccess] IN
    IF ~authSuccess
    THEN [after EXCEPT !.pc = "refresh_wait", !.refreshReqs = @ + 1]
    ELSE IssueData(after)

\* The code that follows `await this.authenticate()` in an operation.
AfterAuthenticate(task, authSuccess) ==
    LET after == [task EXCEPT !.last = IF authSuccess THEN "authenticated"
                                                      ELSE "authFailed",
                              !.failed = @ \/ ~authSuccess] IN
    IF ~authSuccess /\ ChecksAuthSuccess(task.op)
    THEN Return(after, EmptyValue(task.op))
    ELSE IssueData(after)

\* An operation from its entry to its first await (or return), with the
\* access token `acc` held at entry.
EnterOp(task, acc) ==
    IF ChecksCredentials(task.op) /\ CredsMissing
    THEN Return(task, EmptyValue(task.op))
    ELSE IF Falsy(acc)
         THEN IF CredsMissing
              \* authenticate() returns false before any request
              THEN AfterAuthenticate(task, FALSE)
              ELSE [task EXCEPT !.pc = "auth_wait"]
         ELSE IssueData(task)

\* The code that follows `await this.refreshAccessToken()` after a 401.
AfterRefresh(task, refreshSuccess, acc) ==
    LET after == [task EXCEPT !.last = IF refreshSuccess THEN "refreshed"
                                                         ELSE "refreshFailed",
                              !.failed = @ \/ ~refreshSuccess] IN
    IF ~refreshSuccess /\ ChecksRefreshSuccess(task.op)
    THEN Return(after, EmptyValue(task.op))
    ELSE EnterOp(after, acc)

(***************************************************************************)
(* The auth endpoint.  A successful token response carries access_token    *)
(* and the refresh token under one of the two field names, or both.        *)
(***************************************************************************)
FieldVariants == {"refresh_token", "refreshToken", "both"}

TokenBody(n, variant) ==
    [access_token  |-> n,
     refresh_token |-> IF variant \in {"refresh_token", "both"} THEN n ELSE Undefined,
     refreshToken  |-> IF variant \in {"refreshToken", "both"} THEN n ELSE Undefined]

TokenOutcomes == {"ok", "notok", "neterr", "badjson"}
DataOutcomes == {"ok", "401", "notok", "neterr", "badjson"}

(***************************************************************************)
(* analyze-ticket (supabase/functions/analyze-ticket/index.ts).            *)
(* A string that is absent (undefined) or empty is "": both are falsy and  *)
(* the code only tests truthiness.  routingConfidence is kept in tenths    *)
(* (7 stands for 0.7); an absent one is Undefined.  Category and           *)
(* subcategory names are ticket-category names, not names of members of    *)
(* Object.prototype.                                                       *)
(***************************************************************************)
CATEGORY_ROUTING ==
    [c \in {"Booking & Technology", "Customer Service", "Health & Safety",
            "Retail Management", "Community & Culture", "Sales & Marketing",
            "Special Programs", "Miscellaneous", "Global"} |->
        CASE c = "Booking & Technology" -> [department |-> "IT/Tech Support", teamCode |-> "operations"]
          [] c = "Customer Service"     -> [department |-> "Client Success", teamCode |-> "client-success"]
          [] c = "Health & Safety"      -> [department |-> "Operations", teamCode |-> "facilities"]
          [] c = "Retail Management"    -> [department |-> "Sales", teamCode |-> "sales"]
          [] c = "Community & Culture"  -> [department |-> "HR", teamCode |-> "operations"]
          [] c = "Sales & Marketing"    -> [department |-> "Sales", teamCode |-> "sales"]
          [] c = "Special Programs"     -> [department |-> "Operations", teamCode |-> "operations"]
          [] c = "Miscellaneous"        -> [department |-> "Operations", teamCode |-> "operations"]
          [] c = "Global"               -> [department |-> "Management", teamCode |-> "management"]]

SUBCATEGORY_ROUTING ==
    [s \in {"Payment Processing", "Injury During Class", "Medical Disclosure",
            "Theft", "Emergency", "Staff Misconduct", "Discrimination"} |->
        CASE s = "Payment Processing"  -> [department |-> "Finance", priority |-> "high"]
          [] s = "Injury During Class" -> [department |-> "HR", priority |-> "critical"]
          [] s = "Medical Disclosure"  -> [department |-> "HR", priority |-> "high"]
          [] s = "Theft"               -> [department |-> "Security", priority |-> "critical"]
          [] s = "Emergency"           -> [department |-> "Management", priority |-> "critical"]
          [] s = "Staff Misconduct"    -> [department |-> "HR", priority |-> "high"]
          [] s = "Discrimination"      -> [department |-> "HR", priority |-> "high"]]

\* aiResponse.routingConfidence < 0.7 (undefined < 0.7 is false)
ConfidenceThreshold == 7
\* Faulty variant: the threshold itself counts as low confidence (<= 0.7).
BelowThreshold_Inclusive(conf) == conf # Undefined /\ conf <= ConfidenceThreshold
BelowThreshold(conf) == conf # Undefined /\ conf < ConfidenceThreshold

\* Lines 107-116: "Apply subcategory overrides if applicable".
ApplySubcategoryOverride(aiResponse, subcategory) ==
    IF subcategory # "" /\ subcategory \in DOMAIN SUBCATEGORY_ROUTING
    THEN LET override == SUBCATEGORY_ROUTING[subcategory] IN
         [aiResponse EXCEPT
            !.department = IF override.department # "" THEN override.department ELSE @,
            !.priority   = IF override.priority # "" THEN override.priority ELSE @]
    ELSE aiResponse

\* Lines 118-124: "Apply category defaults as fallback".
ApplyCategoryDefault(aiResponse, category) ==
    IF category # "" /\ category \in DOMAIN CATEGORY_ROUTING
    THEN LET categoryDefault == CATEGORY_ROUTING[category] IN
         IF aiResponse.department = "" \/ BelowThreshold(aiResponse.routingConfidence)
         THEN [aiResponse EXCEPT !.department = categoryDefault.department]
         ELSE aiResponse
    ELSE aiResponse

\* The decision the try block returns for the classifier's aiResponse.
LiveDecision(aiResponse, category, subcategory) ==
    ApplyCategoryDefault(ApplySubcategoryOverride(aiResponse, subcategory), category)

\* The body the catch block returns.
FallbackDecision(errorMessage) ==
    [error             |-> errorMessage,
     department        |-> "Operations",
     priority          |-> "medium",
     suggestedTags     |-> <<>>,
     needsEscalation   |-> FALSE,
     routingConfidence |-> 0,
     analysis          |-> "Auto-routing failed, using default assignment"]

NoBody ==
    [error |-> "", department |-> "", priority |-> "", suggestedTags |-> <<>>,
     needsEscalation |-> FALSE, routingConfidence |-> Undefined, analysis |-> ""]

\* new Response(body, { status })
Response(status, kind, body) == [status |-> status, kind |-> kind, body |-> body]

HttpOk == 200

\* Faulty variant: the catch block answers with status 500.
FallbackResponse_ErrorStatus(errorMessage) ==
    Response(500, "fallback", FallbackDecision(errorMessage))

\* The catch block's response.
FallbackResponse(errorMessage) ==
    Response(HttpOk, "fallback", FallbackDecision(errorMessage))

(***************************************************************************)
(* What the model feeds analyze-ticket.                                    *)
(***************************************************************************)
CategoryInputs == {"", "Uncategorised"} \cup DOMAIN CATEGORY_ROUTING
SubcategoryInputs == {"", "Class Feedback"} \cup DOMAIN SUBCATEGORY_ROUTING

Requests ==
    [method : {"POST"}, bodyOk : BOOLEAN,
     category : CategoryInputs, subcategory : SubcategoryInputs]
    \cup
    [method : {"OPTIONS"}, bodyOk : {FALSE}, category : {""}, subcategory : {""}]

\* routingConfidence values the classifier may give, in tenths: absent,
\* below and at the threshold, the maximum, and one out of range.
ConfidenceOutputs == {Undefined, 0, 6, 7, 10, 15}

\* What the classifier may answer in choices[0].message.content.
ClassifierOutputs ==
    [error : {""},
     department : {"", "Training", "Security"},
     priority : {"", "low", "medium", "high", "critical", "urgent"},
     suggestedTags : {<<>>, <<"billing">>},
     needsEscalation : BOOLEAN,
     routingConfidence : ConfidenceOutputs,
     analysis : {"classified"}]

\* fetch rejects; !response.ok; response.json() rejects; data.choices[0] is
\* undefined; JSON.parse(content) throws.
ClassifierFailures == {"neterr", "notok", "badjson", "nochoices", "unparsable"}

ErrorMessage(failure) ==
    CASE failure = "nokey"      -> "OPENAI_API_KEY is not configured"
      [] failure = "notok"      -> "OpenAI API error: 500"
      [] failure = "badrequest" -> "Unexpected end of JSON input"
      [] OTHER                  -> "classifier response could not be read"

IdleFn ==
    [pc |-> "idle", caller |-> "none",
     req |-> [method |-> "POST", bodyOk |-> FALSE, category |-> "", subcategory |-> ""],
     outcome |-> "none", ai |-> NoBody,
     resp |-> Response(0, "none", NoBody)]

\* serve handler, from the request to the classifier fetch (or the response).
Serve(req, caller) ==
    LET f == [IdleFn EXCEPT !.caller = caller, !.req = req] IN
    IF req.method = "OPTIONS"
    THEN [f EXCEPT !.pc = "responded", !.outcome = "options",
                   !.resp = Response(HttpOk, "empty", NoBody)]
    ELSE IF ~req.bodyOk
    THEN [f EXCEPT !.pc = "responded", !.outcome = "badrequest",
                   !.resp = FallbackResponse(ErrorMessage("badrequest"))]
    ELSE IF ~openAIApiKey
    THEN [f EXCEPT !.pc = "responded", !.outcome = "nokey",
                   !.resp = FallbackResponse(ErrorMessage("nokey"))]
    ELSE [f EXCEPT !.pc = "classifying"]

\* Faulty variant: content that does not parse is passed on as an empty
\* aiResponse instead of reaching the catch block.
Classified_ParseUnchecked(f, failure, aiResponse) ==
    IF failure \notin {"none", "unparsable"}
    THEN [f EXCEPT !.pc = "responded", !.outcome = failure,
                   !.resp = FallbackResponse(ErrorMessage(failure))]
    ELSE [f EXCEPT !.pc = "responded",
                   !.outcome = IF failure = "none" THEN "classified" ELSE failure,
                   !.ai = aiResponse,
                   !.resp = Response(HttpOk, "live",
                                LiveDecision(aiResponse, f.req.category, f.req.subcategory))]

\* serve handler, from the classifier's answer to the response.
Classified(f, failure, aiResponse) ==
    IF failure # "none"
    THEN [f EXCEPT !.pc = "responded", !.outcome = failure,
                   !.resp = FallbackResponse(ErrorMessage(failure))]
    ELSE [f EXCEPT !.pc = "responded", !.outcome = "classified", !.ai = aiResponse,
                   !.resp = Response(HttpOk, "live",
                                LiveDecision(aiResponse, f.req.category, f.req.subcategory))]

(***************************************************************************)
(* NewTicket.onSubmit (src/pages/ticket-new.tsx), from the routing call to *)
(* the end of the submission.                                              *)
(***************************************************************************)
priorityOrder == <<"low", "medium", "high", "critical">>

\* priorityOrder.indexOf(p): 0-based, -1 when p is not in the list
IndexOf(p) ==
    IF \E i \in DOMAIN priorityOrder : priorityOrder[i] = p
    THEN (CHOOSE i \in DOMAIN priorityOrder : priorityOrder[i] = p) - 1
    ELSE -1

\* Faulty variant: the decision's priority always replaces the user's.
UpdatedPriority_AlwaysAi(userPriority, aiPriority) ==
    IF aiPriority # "" THEN aiPriority ELSE userPriority

\* Lines 313-316: "Update priority if AI suggests higher priority".
UpdatedPriority(userPriority, aiPriority) ==
    IF aiPriority # "" /\ IndexOf(aiPriority) > IndexOf(userPriority)
    THEN aiPriority
    ELSE userPriority

UserPriorities == {"low", "medium", "high", "critical"}

NoTicket == [priority |-> "", status |-> "", tags |-> <<>>]

IdleSub ==
    [pc |-> "idle", userPriority |-> "", category |-> "", subcategory |-> "",
     routingOutcome |-> "none", hasRouting |-> FALSE, aiRouting |-> NoBody,
     insertAttempted |-> FALSE, ticket |-> NoTicket]

\* What supabase.functions.invoke('analyze-ticket') gives back: the
\* function's response as data, an error, or a thrown exception.
InvokeOutcomes == {"data", "error", "throw"}

\* Faulty variant: the routing call has no try/catch of its own, so an
\* exception ends the submission before the insert.
AfterRouting_ThrowEscapes(s, outcome, routingData) ==
    IF outcome = "throw"
    THEN [s EXCEPT !.pc = "failed", !.routingOutcome = outcome]
    ELSE [s EXCEPT !.pc = "inserting", !.routingOutcome = outcome,
                   !.insertAttempted = TRUE,
                   !.ticket = [priority |-> s.userPriority, status |-> "new", tags |-> <<>>]]

\* onSubmit from the return of the routing call to the insert request.
AfterRouting(s, outcome, routingData) ==
    LET hasRouting == outcome = "data" /\ routingData.kind # "empty"
        aiRouting  == IF hasRouting THEN routingData.body ELSE NoBody
        priority   == IF hasRouting
                      THEN UpdatedPriority(s.userPriority, aiRouting.priority)
                      ELSE s.userPriority
    IN  [s EXCEPT !.pc = "inserting",
                  !.routingOutcome = outcome,
                  !.hasRouting = hasRouting,
                  !.aiRouting = aiRouting,
                  !.insertAttempted = TRUE,
                  !.ticket = [priority |-> priority,
                              status   |-> IF hasRouting /\ aiRouting.needsEscalation
                                           THEN "escalated" ELSE "new",
                              tags     |-> aiRouting.suggestedTags]]

\* onSubmit after the insert's answer.
AfterInsert(s, insertOk) ==
    IF ~insertOk
    THEN [s EXCEPT !.pc = "failed"]
    ELSE IF s.hasRouting /\ s.aiRouting.needsEscalation
         THEN [s EXCEPT !.pc = "notifying"]
         ELSE [s EXCEPT !.pc = "done"]

(***************************************************************************)
(* getAllSessionsWithDetails (part_001:514-563).                           *)
(***************************************************************************)
\* The invocation slots of one aggregation call: the getSessions call of the
\* current page, and one getSessionById call for each row of a page.
ListSlot == 1
DetailSlot(row) == row + 1
AggSlots == 1..(PageSize + 1)

\* What getSessions returns: the number of rows in payload (0 when payload is
\* absent) and pagination.totalCount (Undefined when absent).
EmptyEnvelope == [len |-> 0, totalCount |-> 0]
\* Reported totals: none, no rows, one full page, one row more than a full
\* page, and more rows than the call may fetch.
TotalCounts == {Undefined, 0, PageSize, PageSize + 1, MaxPagesArg * PageSize + 1}
PageResponses == [len : 0..PageSize, totalCount : TotalCounts]

\* The call in progress: its argument, the loop variables currentPage and
\* allSessions, the getSessions calls made so far, and the latest response.
IdleAgg ==
    [pc |-> "idle", maxPages |-> 0, currentPage |-> 0, requested |-> <<>>,
     response |-> EmptyEnvelope, allSessions |-> <<>>]

\* this.getSessions(currentPage, 200, startsBefore, locationId)
PageRequest(currentPage) == [page |-> currentPage, pageSize |-> PageSize]

\* getSessions from its entry to its first await (or return).
CallGetSessions(acc) == EnterOp([IdleTask EXCEPT !.op = "getSessions"], acc)

\* Faulty variant: the detail fetches are awaited one after the other, so
\* only the first one is started.
FanOut_Sequential(len, acc) ==
    [t \in AggSlots |->
        IF t = DetailSlot(1) /\ len >= 1
        THEN EnterOp([IdleTask EXCEPT !.op = "getSessionById"], acc)
        ELSE IdleTask]

\* response.payload.map(async (session) => ... this.getSessionById(session.id)):
\* every callback runs to the first await of its getSessionById call before
\* Promise.all is awaited.
FanOut(len, acc) ==
    [t \in AggSlots |->
        IF t # ListSlot /\ t - 1 <= len
        THEN EnterOp([IdleTask EXCEPT !.op = "getSessionById"], acc)
        ELSE IdleTask]

\* { ...session, detailedInfo: detailedSession }: the session is named by its
\* page and its row in the page; getSessionById gives the detail or null.
Enriched(page, row, detailedSession) ==
    [page |-> page, row |-> row,
     detailedInfo |-> IF detailedSession = "payload" THEN "detail" ELSE "null"]

\* Faulty variant: the sessions whose detail fetch failed are left out.
SessionsWithDetails_DropsFailed(page, len, ts) ==
    SelectSeq([i \in 1..len |-> Enriched(page, i, ts[DetailSlot(i)].result)],
              LAMBDA e : e.detailedInfo = "detail")

\* Faulty variant: the page is collected from last row to first.
SessionsWithDetails_Reversed(page, len, ts) ==
    [i \in 1..len |->
        Enriched(page, len + 1 - i, ts[DetailSlot(len + 1 - i)].result)]

\* The value of Promise.all(response.payload.map(...)): one entry for each
\* row, in the order of the rows.
SessionsWithDetails(page, len, ts) ==
    [i \in 1..len |-> Enriched(page, i, ts[DetailSlot(i)].result)]

\* Faulty variant: only the reported total ends the loop.
ReachedEnd_CountOnly(response, currentPage) ==
    /\ response.totalCount # Undefined
    /\ response.totalCount <= (currentPage + 1) * PageSize

\* response.payload.length < 200 ||
\* response.pagination?.totalCount <= (currentPage + 1) * 200
ReachedEnd(response, currentPage) ==
    \/ response.len < PageSize
    \/ /\ response.totalCount # Undefined
       /\ response.totalCount <= (currentPage + 1) * PageSize

\* `return allSessions`
AggReturn(a) == [a EXCEPT !.pc = "done"]

(***************************************************************************)
(* getMembershipStatus (part_001:373-382).  An instant of time is a        *)
(* positive number.  A membership's endDate is absent (undefined), null,   *)
(* '', a string that is no date, or the string of an instant; isFrozen is  *)
(* true or falsy (false and absent are both FALSE).                        *)
(***************************************************************************)
Null == -2
NotADate == -3      \* a string that new Date() cannot read
NaN == -4           \* the time value of an Invalid Date

Instants == 1..MaxTime
EndDates == {Undefined, Null, EmptyString, NotADate} \cup Instants

\* new Date(v) for a string v, as its time value
DateValue(v) == IF v \in Instants THEN v ELSE NaN

\* a < b on two Dates: false when either is an Invalid Date
DateLess(a, b) == a # NaN /\ b # NaN /\ a < b

NoMembership == [present |-> FALSE, isFrozen |-> FALSE, endDate |-> Undefined]
Memberships ==
    {NoMembership} \cup [present : {TRUE}, isFrozen : BOOLEAN, endDate : EndDates]

\* Faulty variant: the end date is tested before isFrozen.
getMembershipStatus_ExpiryFirst(membership, now) ==
    IF ~membership.present THEN "inactive"
    ELSE IF /\ ~(Falsy(membership.endDate) \/ membership.endDate = Null)
            /\ DateLess(DateValue(membership.endDate), now)
         THEN "expired"
         ELSE IF membership.isFrozen THEN "frozen" ELSE "active"

\* getMembershipStatus(membership), called at the instant `now`
getMembershipStatus(membership, now) ==
    IF ~membership.present THEN "inactive"
    ELSE IF membership.isFrozen THEN "frozen"
    ELSE LET endDate == IF Falsy(membership.endDate) \/ membership.endDate = Null
                        THEN Null
                        ELSE DateValue(membership.endDate)
         IN  IF endDate # Null /\ DateLess(endDate, now)
             THEN "expired"
             ELSE "active"

(***************************************************************************)
(* getActivityLevel (src/unnamed/part_001).                                *)
(***************************************************************************)
VisitCounts == 0..MaxVisits

\* Faulty variant: the upper end of each band is exclusive.
getActivityLevel_ExclusiveBounds(totalVisits) ==
    IF totalVisits = 0 THEN "new"
    ELSE IF totalVisits < 5 THEN "beginner"
    ELSE IF totalVisits < 20 THEN "regular"
    ELSE IF totalVisits < 50 THEN "frequent"
    ELSE "vip"

\* getActivityLevel(totalVisits)
getActivityLevel(totalVisits) ==
    IF totalVisits = 0 THEN "new"
    ELSE IF totalVisits <= 5 THEN "beginner"
    ELSE IF totalVisits <= 20 THEN "regular"
    ELSE IF totalVisits <= 50 THEN "frequent"
    ELSE "vip"

(***************************************************************************)
(* formatSessionData (src/unnamed/part_001).  A raw session is given by    *)
(* one field of each kind the normalizer treats differently: name (read    *)
(* from the summary), capacity and bookingCount (detail || summary),       *)
(* onlineStreamUrl (summary || detail) and tags (summary || []).  An       *)
(* absent text is Absent, an absent number or array is Undefined, and an   *)
(* array is given by its length.                                           *)
(***************************************************************************)
Absent == "undefined"

FalsyText(v) == v \in {Absent, ""}

\* a || b for texts
JsOrText(a, b) == IF FalsyText(a) THEN b ELSE a

Texts == {Absent, "A", "B"}
Counts == {Undefined} \cup 0..MaxCapacity

\* session.detailedInfo, when there is one
DetailRecords ==
    [present : {TRUE}, name : Texts, capacity : Counts, bookingCount : Counts,
     onlineStreamUrl : Texts]

NoDetail ==
    [present |-> FALSE, name |-> Absent, capacity |-> Undefined,
     bookingCount |-> Undefined, onlineStreamUrl |-> Absent]

\* the raw sessions: a summary record with or without detailedInfo
RawSessions ==
    [name : Texts, capacity : Counts, bookingCount : Counts, onlineStreamUrl : Texts,
     tags : {Undefined, 1}, detailedInfo : DetailRecords \cup {NoDetail}]

\* Math.round(bookingCount / capacity * 100), for capacity > 0
RoundedPercent(bookingCount, capacity) ==
    (200 * bookingCount + capacity) \div (2 * capacity)

\* formatSessionData(session), for a session that is not null
formatSessionData(session) ==
    LET detailed == IF session.detailedInfo.present THEN session.detailedInfo
                    ELSE session
    IN  [name |-> session.name,
         capacity |-> JsOr(detailed.capacity, session.capacity),
         bookingCount |-> JsOr(detailed.bookingCount, session.bookingCount),
         onlineStreamUrl |-> JsOrText(session.onlineStreamUrl, detailed.onlineStreamUrl),
         tags |-> IF session.tags = Undefined THEN 0 ELSE session.tags,
         availableSpots |->
             JsOr(JsOr(detailed.capacity, session.capacity), 0)
                 - JsOr(JsOr(detailed.bookingCount, session.bookingCount), 0),
         utilizationRate |->
             IF Falsy(detailed.capacity) THEN 0
             ELSE RoundedPercent(JsOr(detailed.bookingCount, 0), detailed.capacity)]

(***************************************************************************)
(* formatCustomerData (src/unnamed/part_001).  A raw member is given by    *)
(* one field of each kind: id (copied), firstName (|| ''), firstSeen       *)
(* (|| null), sessions (an array, given by its length), visits.total and   *)
(* customerTags (|| []).                                                   *)
(***************************************************************************)
NullText == "null"

RawCustomers ==
    [id : {Undefined, 1}, firstName : {Absent, "", "A"}, firstSeen : {Absent, "A"},
     sessions : {Undefined, 0, 2}, visitsTotal : {Undefined, 0, 5, 6},
     customerTags : {Undefined, 1}]

\* formatCustomerData(customer)
formatCustomerData(customer) ==
    LET sessionsLength == IF customer.sessions = Undefined THEN 0
                          ELSE customer.sessions
    IN  [id |-> customer.id,
         firstName |-> JsOrText(customer.firstName, ""),
         firstSeen |-> JsOrText(customer.firstSeen, NullText),
         totalVisits |-> JsOr(JsOr(sessionsLength, customer.visitsTotal), 0),
         sessions |-> sessionsLength,
         customerTags |-> IF customer.customerTags = Undefined THEN 0
                          ELSE customer.customerTags,
         activityLevel |-> getActivityLevel(JsOr(customer.visitsTotal, 0))]

(***************************************************************************)
(* getLocationId and the session request built from it                     *)
(* (src/unnamed/part_001).  A location name is the sequence of its words;  *)
(* the comma is a word of its own.                                         *)
(***************************************************************************)
\* locationMap, as Object.entries lists it
locationMap ==
    << [key |-> <<"Kwality", "House">>, value |-> "9030"],
       [key |-> <<"Supreme", "HQ", ",", "Bandra">>, value |-> "29821"],
       [key |-> <<"Supreme", "HQ", "Bandra">>, value |-> "29821"],
       [key |-> <<"Kwality", "House", ",", "Kemps", "Corner">>, value |-> "9030"] >>

\* the words names are made of
NameWords ==
    {"Kwality", "KWALITY", "house", "House", "Supreme", "HQ", "Bandra", ",",
     "Studio", "constructor"}

\* String.prototype.toLowerCase on one word
LowerWord(w) ==
    CASE w \in {"Kwality", "KWALITY"} -> "kwality"
      [] w = "House" -> "house"
      [] w = "Supreme" -> "supreme"
      [] w = "HQ" -> "hq"
      [] w = "Bandra" -> "bandra"
      [] w = "Kemps" -> "kemps"
      [] w = "Corner" -> "corner"
      [] w = "Studio" -> "studio"
      [] OTHER -> w

toLowerCase(name) == [i \in 1..Len(name) |-> LowerWord(name[i])]

\* String.prototype.includes
Includes(name, part) ==
    \E i \in 1..(Len(name) - Len(part) + 1) :
        SubSeq(name, i, i + Len(part) - 1) = part

\* The names given to getLocationId: <<>> is '' or no name at all.
LocationNames ==
    UNION {[1..n -> NameWords] : n \in 0..MaxNameWords}
        \cup {locationMap[k].key : k \in DOMAIN locationMap}
        \cup {toLowerCase(locationMap[k].key) : k \in DOMAIN locationMap}

\* names of the properties an object literal inherits from Object.prototype
InheritedNames == {<<"constructor">>}

\* locationMap[locationName]: the own property, an inherited one (a
\* function), or undefined
Lookup(locationName) ==
    IF \E k \in DOMAIN locationMap : locationMap[k].key = locationName
    THEN locationMap[CHOOSE k \in DOMAIN locationMap :
                         locationMap[k].key = locationName].value
    ELSE IF locationName \in InheritedNames THEN "function Object()"
    ELSE Absent

\* getLocationId(locationName)
getLocationId(locationName) ==
    IF locationName = <<>> THEN Absent
    ELSE IF ~FalsyText(Lookup(locationName)) THEN Lookup(locationName)
    ELSE LET lowerName == toLowerCase(locationName)
             matches == {k \in DOMAIN locationMap :
                            Includes(lowerName, toLowerCase(locationMap[k].key))}
         IN  IF matches # {}
             THEN locationMap[CHOOSE k \in matches : \A j \in matches : k <= j].value
             ELSE Absent

\* The instants at which a request is built: a day, a second of that day
\* and the milliseconds.
Clock == [day : 1..MaxDay, second : 0..MaxSecond, ms : {0, 999}]

\* getSessions, lines 410-423: the startsBefore and locationId parameters of
\* the request, when startsBefore is not given.  The cutoff is the text of
\* tomorrow.toISOString() up to the '.', that is without the milliseconds.
SessionsQuery(locationId, now) ==
    LET tomorrow == [now EXCEPT !.day = @ + 1]
    IN  [startsBefore |-> [day |-> tomorrow.day, second |-> tomorrow.second],
         locationId |-> IF FalsyText(locationId) THEN Absent ELSE locationId]

\* getSessionsByLocation(locationName), up to the request
getSessionsByLocation(locationName, now) ==
    LET locationId == getLocationId(locationName)
    IN  [locationId |-> locationId, query |-> SessionsQuery(locationId, now)]

(***************************************************************************)
(* getMembershipStatus of MomenceClientSearch                              *)
(* (src/src/components/momence-client-search.tsx), over the list           *)
(* memberMemberships.                                                      *)
(***************************************************************************)
\* the lists of a member's active memberships
MembershipLists ==
    UNION {[1..n -> Memberships \ {NoMembership}] : n \in 0..MaxMemberships}

\* getMembershipStatus(), rendered at the instant `now`
MomenceClientSearch_getMembershipStatus(memberMemberships, now) ==
    LET hasActive ==
            \E i \in DOMAIN memberMemberships :
                LET m == memberMemberships[i] IN
                /\ ~m.isFrozen
                /\ \/ Falsy(m.endDate) \/ m.endDate = Null
                   \/ DateLess(now, DateValue(m.endDate))
        hasFrozen ==
            \E i \in DOMAIN memberMemberships : memberMemberships[i].isFrozen
    IN  IF Len(memberMemberships) = 0 THEN "inactive"
        ELSE IF hasActive THEN "active"
        ELSE IF hasFrozen THEN "frozen"
        ELSE "expired"

NoCall ==
    [method |-> "none", pc |-> "idle", membership |-> NoMembership, now |-> 1,
     result |-> "none"]

(***************************************************************************)
(* The momence-api proxy (src/unnamed/part_000).                           *)
(***************************************************************************)
HttpInternalError == 500

\* A request.  bodyOk says that req.json() resolves to an object; action is
\* one of the five of MomenceRequest, absent ("") or unknown; memberId and
\* sessionId are absent, 0 or an id.
ProxyRequests ==
    [method : {"OPTIONS", "POST"}, bodyOk : BOOLEAN,
     action : {"searchMembers", "getMemberSessions", "getMemberMemberships",
               "getSessions", "getSessionDetails", "", "deleteMember"},
     memberId : {Undefined, 0, 1}, sessionId : {Undefined, 0, 1}]

\* A body is a text.  kind "json" is the text of the JSON value `value`,
\* written with or without white space; kind "text" is no JSON at all; kind
\* "error" is the text of {error: value}; kind "none" is no body.
NoBodyText == [kind |-> "none", value |-> "", spaced |-> FALSE]

\* Bodies the upstream API may send.  The JSON values are an envelope with
\* a payload array, an object without payload, and null.
UpstreamBodies ==
    [kind : {"json"}, value : {"envelope", "object", "null"}, spaced : BOOLEAN]
        \cup {[kind |-> "text", value |-> "html", spaced |-> FALSE]}

\* response.ok
ResponseOk(status) == status \in 200..299

\* What fetch gives: it rejects (fetched = FALSE) or resolves to a response.
UpstreamOutcomes ==
    [fetched : BOOLEAN, status : {200, 201, 401, 500}, body : UpstreamBodies]

\* JSON.stringify(data): the text of the value, without white space
JsonStringify(value) == [kind |-> "json", value |-> value, spaced |-> FALSE]

\* Faulty variant: the error is sent with the default status.
ProxyFailure_Ok(errorMessage) ==
    [status |-> HttpOk,
     body |-> [kind |-> "error", value |-> errorMessage, spaced |-> FALSE]]

\* catch: 500 with {error: errorMessage}
ProxyFailure(errorMessage) ==
    [status |-> HttpInternalError,
     body |-> [kind |-> "error", value |-> errorMessage, spaced |-> FALSE]]

\* the switch on action: the error it throws, or "" when it reaches fetch
SwitchError(req) ==
    IF req.action \in {"getMemberSessions", "getMemberMemberships"}
    THEN IF Falsy(req.memberId) THEN "memberId is required" ELSE ""
    ELSE IF req.action = "getSessionDetails"
    THEN IF Falsy(req.sessionId) THEN "sessionId is required" ELSE ""
    ELSE IF req.action \in {"searchMembers", "getSessions"} THEN ""
    ELSE "Unknown action"

\* lines 85-97: what the handler answers to the upstream outcome.  fetch,
\* response.json() and data.payload (of null) throw a TypeError or a
\* SyntaxError, whose message the catch sends.
AfterUpstream(up) ==
    IF ~up.fetched THEN ProxyFailure("fetch failed")
    ELSE IF ~ResponseOk(up.status) THEN ProxyFailure("Momence API error")
    ELSE IF up.body.kind # "json" THEN ProxyFailure("Unexpected token")
    ELSE IF up.body.value = "null"
         THEN ProxyFailure("Cannot read properties of null")
         ELSE [status |-> HttpOk, body |-> JsonStringify(up.body.value)]

\* The proxy before its first request.
IdleProxy ==
    [momenceToken |-> TRUE, pc |-> "idle",
     req |-> [method |-> "none", bodyOk |-> TRUE, action |-> "",
              memberId |-> Undefined, sessionId |-> Undefined],
     upstreamReqs |-> 0,
     upstream |-> [fetched |-> FALSE, status |-> 0, body |-> NoBodyText],
     response |-> [status |-> 0, body |-> NoBodyText]]

(***************************************************************************)
(* MomenceClientSearch (src/src/components/momence-client-search.tsx).     *)
(***************************************************************************)
\* the texts of the search box, over the letters a and b
Queries == UNION {[1..n -> {"a", "b"}] : n \in 0..MaxQueryLen}

MinQueryLength == 2

\* useState / useRef: nothing typed, no timer, no request sent or in flight,
\* no results, no client selected and no lists loaded.  searchResults is the
\* query whose members it holds (<<>> for []); selectedClient,
\* memberSessions and memberMemberships are the id of the member they
\* belong to (0 for null and []); inflight and loads are the searches and
\* the detail loads that have not been answered yet.
IdleSearch ==
    [searchQuery |-> <<>>,
     timer |-> [armed |-> FALSE, query |-> <<>>],
     sent |-> [issued |-> FALSE, query |-> <<>>, current |-> <<>>],
     inflight |-> {}, searchResults |-> <<>>, showResults |-> FALSE,
     selectedClient |-> 0, memberSessions |-> 0, memberMemberships |-> 0,
     loads |-> {}]

\* Faulty variant: the effect returns no cleanup.
Cleanup_Missing(s) == s

\* The cleanup the previous run of the effect returned: only a run that set
\* a timer returned one, and it clears that timer.
Cleanup(s) ==
    IF Len(s.searchQuery) < MinQueryLength THEN s
    ELSE [s EXCEPT !.timer.armed = FALSE]

\* The effect body for searchQuery = q.
Effect(s, q) ==
    IF Len(q) < MinQueryLength
    THEN [s EXCEPT !.searchQuery = q, !.searchResults = <<>>, !.showResults = FALSE]
    ELSE [s EXCEPT !.searchQuery = q, !.timer = [armed |-> TRUE, query |-> q]]

TypeOK ==
    /\ creds \in [authToken : BOOLEAN, username : BOOLEAN, password : BOOLEAN]
    /\ accessToken \in {EmptyString, Undefined} \cup 1..MaxIssued
    /\ refreshToken \in {EmptyString, Undefined} \cup 1..MaxIssued
    /\ issued \in 0..MaxIssued
    /\ \A t \in DOMAIN tasks : tasks[t].op \in Ops \cup {"none"}

\* The client after construction: the tokens are '', the credentials are
\* what the environment gives.  No ticket is being routed.
InitClient ==
    /\ creds \in [authToken : BOOLEAN, username : BOOLEAN, password : BOOLEAN]
    /\ accessToken = EmptyString
    /\ refreshToken = EmptyString
    /\ issued = 0
    /\ tasks = [t \in TaskIds |-> IdleTask]
    /\ openAIApiKey = TRUE
    /\ fn = IdleFn
    /\ sub = IdleSub
    /\ agg = IdleAgg
    /\ call = NoCall
    /\ proxy = IdleProxy
    /\ search = IdleSearch

\* A caller invokes a client operation: it runs to its first await.  The
\* invocation takes the first free slot.
Invoke(t, op) ==
    /\ tasks[t].pc = "idle"
    /\ \A u \in DOMAIN tasks : u < t => tasks[u].pc # "idle"
    /\ tasks' = [tasks EXCEPT ![t] = EnterOp([IdleTask EXCEPT !.op = op], accessToken)]
    /\ UNCHANGED <<creds, accessToken, refreshToken, issued>>
    /\ UNCHANGED routingVars
    /\ UNCHANGED otherVars

\* Faulty variant: authenticate() keeps a refresh token that is already
\* stored, so the pair can come from two token responses.
AuthenticateRespond_KeepsRefreshToken(t, outcome, variant) ==
    /\ tasks[t].pc = "auth_wait"
    /\ IF outcome = "ok"
       THEN /\ issued < MaxIssued
            /\ issued' = issued + 1
            /\ LET data == TokenBody(issued + 1, variant) IN
               /\ accessToken' = data.access_token
               /\ refreshToken' = JsOr(refreshToken,
                                       JsOr(data.refresh_token, data.refreshToken))
            /\ tasks' = [tasks EXCEPT ![t] = AfterAuthenticate(@, TRUE)]
       ELSE /\ variant = "both"
            /\ tasks' = [tasks EXCEPT ![t] = AfterAuthenticate(@, FALSE)]
            /\ UNCHANGED <<accessToken, refreshToken, issued>>
    /\ UNCHANGED creds
    /\ UNCHANGED routingVars
    /\ UNCHANGED otherVars

\* Faulty variant: authenticate() does not test response.ok, so a non-success
\* status is reported as success although no token was stored.
AuthenticateRespond_IgnoresStatus(t, outcome, variant) ==
    /\ tasks[t].pc = "auth_wait"
    /\ IF outcome = "ok"
       THEN /\ issued < MaxIssued
            /\ issued' = issued + 1
            /\ LET data == TokenBody(issued + 1, variant) IN
               /\ accessToken' = data.access_token
               /\ refreshToken' = JsOr(data.refresh_token, data.refreshToken)
            /\ tasks' = [tasks EXCEPT ![t] = AfterAuthenticate(@, TRUE)]
       ELSE /\ variant = "both"
            /\ tasks' = [tasks EXCEPT ![t] = AfterAuthenticate(@, outcome = "notok")]
            /\ UNCHANGED <<accessToken, refreshToken, issued>>
    /\ UNCHANGED creds
    /\ UNCHANGED routingVars
    /\ UNCHANGED otherVars

\* authenticate(): the password-grant response arrives.
AuthenticateRespond(t, outcome, variant) ==
    /\ tasks[t].pc = "auth_wait"
    /\ IF outcome = "ok"
       THEN /\ issued < MaxIssued
            /\ issued' = issued + 1
            /\ LET data == TokenBody(issued + 1, variant) IN
               /\ accessToken' = data.access_token
               /\ refreshToken' = JsOr(data.refresh_token, data.refreshToken)
            /\ tasks' = [tasks EXCEPT ![t] = AfterAuthenticate(@, TRUE)]
       ELSE /\ variant = "both"
            /\ tasks' = [tasks EXCEPT ![t] = AfterAuthenticate(@, FALSE)]
            /\ UNCHANGED <<accessToken, refreshToken, issued>>
    /\ UNCHANGED creds
    /\ UNCHANGED routingVars
    /\ UNCHANGED otherVars

\* The response to the operation's (first) data request arrives.
DataRespond(t, outcome) ==
    /\ tasks[t].pc = "data_wait"
    /\ IF outcome = "401"
       THEN /\ tasks[t].n401 < Max401
            \* refreshAccessToken() sends the refresh-token grant
            /\ tasks' = [tasks EXCEPT ![t] = [@ EXCEPT !.pc = "refresh_wait",
                                                       !.n401 = @ + 1,
                                                       !.refreshReqs = @ + 1,
                                                       !.failed = TRUE]]
       ELSE IF outcome = "ok"
       THEN tasks' = [tasks EXCEPT ![t] =
                         IF HasFollowUpRequests(@.op)
                         THEN [@ EXCEPT !.pc = "sessions_wait"]
                         ELSE Return(@, "payload")]
       ELSE tasks' = [tasks EXCEPT ![t] =
                         Return([@ EXCEPT !.failed = TRUE], EmptyValue(@.op))]
    /\ UNCHANGED <<creds, accessToken, refreshToken, issued>>
    /\ UNCHANGED routingVars
    /\ UNCHANGED otherVars

\* Faulty variant: a failed refresh throws the token pair away.
RefreshRespond_ClearsOnFailure(t, outcome, variant) ==
    /\ tasks[t].pc = "refresh_wait"
    /\ IF outcome = "ok"
       THEN /\ issued < MaxIssued
            /\ issued' = issued + 1
            /\ LET data == TokenBody(issued + 1, variant) IN
               /\ accessToken' = data.access_token
               /\ refreshToken' = data.refreshToken
            /\ tasks' = [tasks EXCEPT ![t] = AfterRefresh(@, TRUE, accessToken')]
       ELSE /\ variant = "both"
            /\ accessToken' = EmptyString
            /\ refreshToken' = EmptyString
            /\ tasks' = [tasks EXCEPT ![t] = AfterRefresh(@, FALSE, EmptyString)]
            /\ UNCHANGED issued
    /\ UNCHANGED creds
    /\ UNCHANGED routingVars
    /\ UNCHANGED otherVars

\* refreshAccessToken(): the refresh-token grant response arrives.
RefreshRespond(t, outcome, variant) ==
    /\ tasks[t].pc = "refresh_wait"
    /\ IF outcome = "ok"
       THEN /\ issued < MaxIssued
            /\ issued' = issued + 1
            /\ LET data == TokenBody(issued + 1, variant) IN
               /\ accessToken' = data.access_token
               /\ refreshToken' = data.refreshToken
            /\ tasks' = [tasks EXCEPT ![t] = AfterRefresh(@, TRUE, accessToken')]
       ELSE /\ variant = "both"
            /\ tasks' = [tasks EXCEPT ![t] = AfterRefresh(@, FALSE, accessToken)]
            /\ UNCHANGED <<accessToken, refreshToken, issued>>
    /\ UNCHANGED creds
    /\ UNCHANGED routingVars
    /\ UNCHANGED otherVars

\* getCustomerById: the sessions response, then the memberships response.
FollowUpRespond(t, outcome) ==
    /\ tasks[t].pc \in {"sessions_wait", "memberships_wait"}
    /\ outcome # "401"
    /\ tasks' = [tasks EXCEPT ![t] =
                    LET task == [@ EXCEPT !.failed = @ \/ outcome # "ok"] IN
                    IF outcome \in {"neterr", "badjson"}
                    THEN Return(task, EmptyValue(task.op))
                    ELSE IF task.pc = "sessions_wait"
                         THEN [task EXCEPT !.pc = "memberships_wait"]
                         ELSE Return(task, "payload")]
    /\ UNCHANGED <<creds, accessToken, refreshToken, issued>>
    /\ UNCHANGED routingVars
    /\ UNCHANGED otherVars

\* The caller takes the result; the task may be used for another invocation.
Complete(t) ==
    /\ tasks[t].pc = "done"
    /\ tasks' = [tasks EXCEPT ![t] = IdleTask]
    /\ UNCHANGED <<creds, accessToken, refreshToken, issued>>
    /\ UNCHANGED routingVars
    /\ UNCHANGED otherVars

ClientNext ==
    \/ \E t \in DOMAIN tasks, op \in Ops : Invoke(t, op)
    \/ \E t \in DOMAIN tasks, o \in TokenOutcomes, v \in FieldVariants : AuthenticateRespond(t, o, v)
    \/ \E t \in DOMAIN tasks, o \in DataOutcomes : DataRespond(t, o)
    \/ \E t \in DOMAIN tasks, o \in TokenOutcomes, v \in FieldVariants : RefreshRespond(t, o, v)
    \/ \E t \in DOMAIN tasks, o \in DataOutcomes : FollowUpRespond(t, o)
    \/ \E t \in DOMAIN tasks : Complete(t)

\* The server goes on answering 401 to an invocation that has already got
\* Max401 of them: refreshAccessToken() sends the grant again.  The counters
\* of the invocation stay at their bounds.
DataRespond401Again(t) ==
    /\ tasks[t].pc = "data_wait"
    /\ tasks[t].n401 = Max401
    /\ tasks' = [tasks EXCEPT ![t] = [@ EXCEPT !.pc = "refresh_wait"]]
    /\ UNCHANGED <<creds, accessToken, refreshToken, issued>>
    /\ UNCHANGED routingVars
    /\ UNCHANGED otherVars

\* The client with a server that may answer 401 without end.
ClientLiveNext ==
    \/ ClientNext
    \/ \E t \in DOMAIN tasks : DataRespond401Again(t)

\* Some response to the request invocation t is waiting for arrives.
Responds(t) ==
    \/ \E o \in TokenOutcomes, v \in FieldVariants : AuthenticateRespond(t, o, v)
    \/ \E o \in DataOutcomes : DataRespond(t, o)
    \/ DataRespond401Again(t)
    \/ \E o \in TokenOutcomes, v \in FieldVariants : RefreshRespond(t, o, v)
    \/ \E o \in DataOutcomes : FollowUpRespond(t, o)


(***************************************************************************)
(* Actions of analyze-ticket and of the submission flow.                   *)
(***************************************************************************)
\* Some caller other than the form sends a request to analyze-ticket.
DirectRequest(req) ==
    /\ fn.pc = "idle"
    /\ sub.pc = "idle"
    /\ fn' = Serve(req, "direct")
    /\ UNCHANGED <<openAIApiKey, sub>>
    /\ UNCHANGED clientVars
    /\ UNCHANGED otherVars

\* The user submits the form: onSubmit runs to the routing call.
Submit(userPriority, category, subcategory) ==
    /\ sub.pc = "idle"
    /\ fn.pc = "idle"
    /\ sub' = [IdleSub EXCEPT !.pc = "routing", !.userPriority = userPriority,
                              !.category = category, !.subcategory = subcategory]
    /\ fn' = Serve([method |-> "POST", bodyOk |-> TRUE,
                    category |-> category, subcategory |-> subcategory], "form")
    /\ UNCHANGED openAIApiKey
    /\ UNCHANGED clientVars
    /\ UNCHANGED otherVars

\* The classifier's answer reaches analyze-ticket.
ClassifierRespond(failure, aiResponse) ==
    /\ fn.pc = "classifying"
    /\ fn' = Classified(fn, failure, aiResponse)
    /\ UNCHANGED <<openAIApiKey, sub>>
    /\ UNCHANGED clientVars
    /\ UNCHANGED otherVars

\* A direct caller receives the response.
DirectDone ==
    /\ fn.pc = "responded"
    /\ fn.caller = "direct"
    /\ fn' = IdleFn
    /\ UNCHANGED <<openAIApiKey, sub>>
    /\ UNCHANGED clientVars
    /\ UNCHANGED otherVars

\* supabase.functions.invoke returns (or throws) in onSubmit, which goes on
\* to the insert.
InvokeReturn(outcome) ==
    /\ sub.pc = "routing"
    /\ outcome = "data" => fn.pc = "responded"
    /\ sub' = AfterRouting(sub, outcome, fn.resp)
    /\ fn' = IdleFn
    /\ UNCHANGED openAIApiKey
    /\ UNCHANGED clientVars
    /\ UNCHANGED otherVars

\* The insert into tickets answers.
InsertRespond(insertOk) ==
    /\ sub.pc = "inserting"
    /\ sub' = AfterInsert(sub, insertOk)
    /\ UNCHANGED <<openAIApiKey, fn>>
    /\ UNCHANGED clientVars
    /\ UNCHANGED otherVars

\* send-ticket-notification returns or throws: both end the submission.
NotifyReturn ==
    /\ sub.pc = "notifying"
    /\ sub' = [sub EXCEPT !.pc = "done"]
    /\ UNCHANGED <<openAIApiKey, fn>>
    /\ UNCHANGED clientVars
    /\ UNCHANGED otherVars

\* finally { setIsSubmitting(false) }: the form is ready for the next ticket.
SubmitEnd ==
    /\ sub.pc \in {"done", "failed"}
    /\ sub' = IdleSub
    /\ UNCHANGED <<openAIApiKey, fn>>
    /\ UNCHANGED clientVars
    /\ UNCHANGED otherVars

RoutingNext ==
    \/ \E req \in Requests : DirectRequest(req)
    \/ \E p \in UserPriorities, c \in CategoryInputs, s \in SubcategoryInputs : Submit(p, c, s)
    \/ \E f \in ClassifierFailures : ClassifierRespond(f, NoBody)
    \/ \E ai \in ClassifierOutputs : ClassifierRespond("none", ai)
    \/ DirectDone
    \/ \E o \in InvokeOutcomes : InvokeReturn(o)
    \/ \E ok \in BOOLEAN : InsertRespond(ok)
    \/ NotifyReturn
    \/ SubmitEnd

\* analyze-ticket deployed with or without its API key, the form idle, and
\* a client with its credentials set and no call running.
InitRouting ==
    /\ creds = [authToken |-> TRUE, username |-> TRUE, password |-> TRUE]
    /\ accessToken = EmptyString
    /\ refreshToken = EmptyString
    /\ issued = 0
    /\ tasks = [t \in TaskIds |-> IdleTask]
    /\ openAIApiKey \in BOOLEAN
    /\ fn = IdleFn
    /\ sub = IdleSub
    /\ agg = IdleAgg
    /\ call = NoCall
    /\ proxy = IdleProxy
    /\ search = IdleSearch

Init ==
    /\ creds \in [authToken : BOOLEAN, username : BOOLEAN, password : BOOLEAN]
    /\ accessToken = EmptyString
    /\ refreshToken = EmptyString
    /\ issued = 0
    /\ tasks = [t \in TaskIds |-> IdleTask]
    /\ openAIApiKey \in BOOLEAN
    /\ fn = IdleFn
    /\ sub = IdleSub
    /\ agg = IdleAgg
    /\ call = NoCall
    /\ proxy = IdleProxy
    /\ search = IdleSearch

Next == ClientNext \/ RoutingNext

\* The whole system.
Spec == Init /\ [][Next]_vars

\* The Momence client alone.
SpecClient == InitClient /\ [][ClientNext]_vars

\* A caller invokes an operation while the client holds no access token.
InvokeWithoutToken(t, op) ==
    /\ Falsy(accessToken)
    /\ Invoke(t, op)

\* The response to a data request, where the server answers 401 to one
\* invocation once at most (SpecClient has the repeated 401).
DataRespondOnce(t, outcome) ==
    /\ outcome = "401" => tasks[t].n401 = 0
    /\ DataRespond(t, outcome)

ConcurrentNext ==
    \/ \E t \in DOMAIN tasks, op \in Ops : InvokeWithoutToken(t, op)
    \/ \E t \in DOMAIN tasks, o \in TokenOutcomes, v \in FieldVariants : AuthenticateRespond(t, o, v)
    \/ \E t \in DOMAIN tasks, o \in DataOutcomes : DataRespondOnce(t, o)
    \/ \E t \in DOMAIN tasks, o \in TokenOutcomes, v \in FieldVariants : RefreshRespond(t, o, v)
    \/ \E t \in DOMAIN tasks, o \in DataOutcomes : FollowUpRespond(t, o)
    \/ \E t \in DOMAIN tasks : Complete(t)

\* A client after construction, with its credentials set, whose callers
\* start operations together.
InitConcurrent ==
    /\ creds = [authToken |-> TRUE, username |-> TRUE, password |-> TRUE]
    /\ accessToken = EmptyString
    /\ refreshToken = EmptyString
    /\ issued = 0
    /\ tasks = [t \in 1..NConcurrent |-> IdleTask]
    /\ openAIApiKey = TRUE
    /\ fn = IdleFn
    /\ sub = IdleSub
    /\ agg = IdleAgg
    /\ call = NoCall
    /\ proxy = IdleProxy
    /\ search = IdleSearch

\* Operations racing to authenticate for the first time.
SpecConcurrent == InitConcurrent /\ [][ConcurrentNext]_vars

(***************************************************************************)
(* Actions of getAllSessionsWithDetails.  Its getSessions and               *)
(* getSessionById calls are invocations of the client, answered by         *)
(* AuthenticateRespond, DataRespond and RefreshRespond.                    *)
(***************************************************************************)
\* A caller invokes getAllSessionsWithDetails(maxPages): it runs to the
\* first getSessions call, or returns when the loop does not start.
AggStart(maxPages) ==
    /\ agg.pc = "idle"
    /\ IF 0 < maxPages
       THEN /\ agg' = [IdleAgg EXCEPT !.pc = "list_wait", !.maxPages = maxPages,
                                      !.requested = <<PageRequest(0)>>]
            /\ tasks' = [tasks EXCEPT ![ListSlot] = CallGetSessions(accessToken)]
       ELSE /\ agg' = AggReturn([IdleAgg EXCEPT !.maxPages = maxPages])
            /\ UNCHANGED tasks
    /\ UNCHANGED <<creds, accessToken, refreshToken, issued, call, proxy, search>>
    /\ UNCHANGED routingVars

\* Faulty variant: a page that failed or has no rows makes the call return
\* [], as its catch block does.
AggListReturn_DiscardsPages(data) ==
    /\ agg.pc = "list_wait"
    /\ tasks[ListSlot].pc = "done"
    /\ tasks[ListSlot].result # "payload" => data = EmptyEnvelope
    /\ IF data.len > 0
       THEN /\ agg' = [agg EXCEPT !.pc = "details_wait", !.response = data]
            /\ tasks' = FanOut(data.len, accessToken)
       ELSE /\ agg' = AggReturn([agg EXCEPT !.response = data, !.allSessions = <<>>])
            /\ tasks' = [t \in AggSlots |-> IdleTask]
    /\ UNCHANGED <<creds, accessToken, refreshToken, issued, call, proxy, search>>
    /\ UNCHANGED routingVars

\* getSessions has returned `data`, the body of the success response, or its
\* empty envelope: a page with rows starts the detail fetches of all its
\* rows, a page without rows ends the loop.
AggListReturn(data) ==
    /\ agg.pc = "list_wait"
    /\ tasks[ListSlot].pc = "done"
    /\ tasks[ListSlot].result # "payload" => data = EmptyEnvelope
    /\ IF data.len > 0
       THEN /\ agg' = [agg EXCEPT !.pc = "details_wait", !.response = data]
            /\ tasks' = FanOut(data.len, accessToken)
       ELSE /\ agg' = AggReturn([agg EXCEPT !.response = data])
            /\ tasks' = [t \in AggSlots |-> IdleTask]
    /\ UNCHANGED <<creds, accessToken, refreshToken, issued, call, proxy, search>>
    /\ UNCHANGED routingVars

\* Promise.all has resolved: every getSessionById call of the page has
\* returned.  The page is appended, and the loop ends or asks for the next
\* page.
AggJoin ==
    /\ agg.pc = "details_wait"
    /\ \A i \in 1..agg.response.len : tasks[DetailSlot(i)].pc = "done"
    /\ LET sessionsWithDetails ==
               SessionsWithDetails(agg.currentPage, agg.response.len, tasks)
           appended == [agg EXCEPT !.allSessions = @ \o sessionsWithDetails]
           nextPage == agg.currentPage + 1
       IN  IF ReachedEnd(agg.response, agg.currentPage)
           THEN /\ agg' = AggReturn(appended)
                /\ tasks' = [t \in AggSlots |-> IdleTask]
           ELSE IF nextPage < agg.maxPages
           THEN /\ agg' = [appended EXCEPT !.currentPage = nextPage,
                                           !.pc = "list_wait",
                                           !.requested = Append(@, PageRequest(nextPage))]
                /\ tasks' = [t \in AggSlots |->
                                IF t = ListSlot THEN CallGetSessions(accessToken)
                                                ELSE IdleTask]
           ELSE /\ agg' = AggReturn([appended EXCEPT !.currentPage = nextPage])
                /\ tasks' = [t \in AggSlots |-> IdleTask]
    /\ UNCHANGED <<creds, accessToken, refreshToken, issued, call, proxy, search>>
    /\ UNCHANGED routingVars

\* The caller takes the list.
AggDone ==
    /\ agg.pc = "done"
    /\ agg' = IdleAgg
    /\ UNCHANGED <<creds, accessToken, refreshToken, issued, tasks, call, proxy, search>>
    /\ UNCHANGED routingVars

AggNext ==
    \/ \E maxPages \in 0..MaxPagesArg : AggStart(maxPages)
    \/ \E data \in PageResponses : AggListReturn(data)
    \/ AggJoin
    \/ AggDone
    \/ \E t \in DOMAIN tasks, o \in TokenOutcomes, v \in FieldVariants : AuthenticateRespond(t, o, v)
    \/ \E t \in DOMAIN tasks, o \in DataOutcomes : DataRespond(t, o)
    \/ \E t \in DOMAIN tasks, o \in TokenOutcomes, v \in FieldVariants : RefreshRespond(t, o, v)

\* A client after construction whose only caller uses
\* getAllSessionsWithDetails.
InitAggregate ==
    /\ creds \in [authToken : BOOLEAN, username : BOOLEAN, password : BOOLEAN]
    /\ accessToken = EmptyString
    /\ refreshToken = EmptyString
    /\ issued = 0
    /\ tasks = [t \in AggSlots |-> IdleTask]
    /\ openAIApiKey = TRUE
    /\ fn = IdleFn
    /\ sub = IdleSub
    /\ agg = IdleAgg
    /\ call = NoCall
    /\ proxy = IdleProxy
    /\ search = IdleSearch

\* getAllSessionsWithDetails over the client.
SpecAggregate == InitAggregate /\ [][AggNext]_vars

(***************************************************************************)
(* Calls of getMembershipStatus.                                           *)
(***************************************************************************)
\* formatCustomerData calls getMembershipStatus(membership) at some instant.
MembershipStatusCall(membership, now) ==
    /\ call.pc \in {"idle", "returned"}
    /\ call' = [method |-> "getMembershipStatus", pc |-> "called",
                membership |-> membership, now |-> now, result |-> "none"]
    /\ UNCHANGED <<agg, proxy, search>>
    /\ UNCHANGED clientVars
    /\ UNCHANGED routingVars

\* The call returns the status.
MembershipStatusReturn ==
    /\ call.method = "getMembershipStatus"
    /\ call.pc = "called"
    /\ call' = [call EXCEPT !.pc = "returned",
                            !.result = getMembershipStatus(call.membership, call.now)]
    /\ UNCHANGED <<agg, proxy, search>>
    /\ UNCHANGED clientVars
    /\ UNCHANGED routingVars

MembershipNext ==
    \/ \E m \in Memberships, now \in Instants : MembershipStatusCall(m, now)
    \/ MembershipStatusReturn

InitMembership ==
    /\ creds = [authToken |-> TRUE, username |-> TRUE, password |-> TRUE]
    /\ accessToken = EmptyString
    /\ refreshToken = EmptyString
    /\ issued = 0
    /\ tasks = [t \in TaskIds |-> IdleTask]
    /\ openAIApiKey = TRUE
    /\ fn = IdleFn
    /\ sub = IdleSub
    /\ agg = IdleAgg
    /\ call = NoCall
    /\ proxy = IdleProxy
    /\ search = IdleSearch

\* getMembershipStatus applied to every membership at every instant.
SpecMembership == InitMembership /\ [][MembershipNext]_vars

(***************************************************************************)
(* Calls of the normalizers and helpers of MomenceAPI.                     *)
(***************************************************************************)
\* formatCustomerData calls getActivityLevel(totalVisits); a caller formats
\* a raw session.
FormatCalls ==
    [method : {"getActivityLevel"}, pc : {"called"}, totalVisits : VisitCounts,
     result : {"none"}]
    \cup [method : {"formatSessionData"}, pc : {"called"}, session : RawSessions,
          result : {"none"}]
    \cup [method : {"formatCustomerData"}, pc : {"called"}, customer : RawCustomers,
          result : {"none"}]
    \cup [method : {"getSessionsByLocation"}, pc : {"called"},
          locationName : LocationNames, now : Clock, result : {"none"}]
    \cup [method : {"MomenceClientSearch.getMembershipStatus"}, pc : {"called"},
          memberMemberships : MembershipLists, now : Instants, result : {"none"}]

ActivityLevelReturn ==
    /\ call.method = "getActivityLevel"
    /\ call.pc = "called"
    /\ call' = [call EXCEPT !.pc = "returned",
                            !.result = getActivityLevel(call.totalVisits)]
    /\ UNCHANGED <<agg, proxy, search>>
    /\ UNCHANGED clientVars
    /\ UNCHANGED routingVars

FormatSessionReturn ==
    /\ call.method = "formatSessionData"
    /\ call.pc = "called"
    /\ call' = [call EXCEPT !.pc = "returned",
                            !.result = formatSessionData(call.session)]
    /\ UNCHANGED <<agg, proxy, search>>
    /\ UNCHANGED clientVars
    /\ UNCHANGED routingVars

FormatCustomerReturn ==
    /\ call.method = "formatCustomerData"
    /\ call.pc = "called"
    /\ call' = [call EXCEPT !.pc = "returned",
                            !.result = formatCustomerData(call.customer)]
    /\ UNCHANGED <<agg, proxy, search>>
    /\ UNCHANGED clientVars
    /\ UNCHANGED routingVars

SessionsByLocationReturn ==
    /\ call.method = "getSessionsByLocation"
    /\ call.pc = "called"
    /\ call' = [call EXCEPT !.pc = "returned",
                            !.result = getSessionsByLocation(call.locationName,
                                                             call.now)]
    /\ UNCHANGED <<agg, proxy, search>>
    /\ UNCHANGED clientVars
    /\ UNCHANGED routingVars

\* The component renders and computes the status it shows.
ShownStatusReturn ==
    /\ call.method = "MomenceClientSearch.getMembershipStatus"
    /\ call.pc = "called"
    /\ call' = [call EXCEPT
                  !.pc = "returned",
                  !.result = MomenceClientSearch_getMembershipStatus(
                                 call.memberMemberships, call.now)]
    /\ UNCHANGED <<agg, proxy, search>>
    /\ UNCHANGED clientVars
    /\ UNCHANGED routingVars

FormatNext ==
    \/ ActivityLevelReturn
    \/ FormatSessionReturn
    \/ FormatCustomerReturn
    \/ SessionsByLocationReturn
    \/ ShownStatusReturn

\* One call of a normalizer or helper is in progress, with any arguments.
InitFormat ==
    /\ creds = [authToken |-> TRUE, username |-> TRUE, password |-> TRUE]
    /\ accessToken = EmptyString
    /\ refreshToken = EmptyString
    /\ issued = 0
    /\ tasks = [t \in TaskIds |-> IdleTask]
    /\ openAIApiKey = TRUE
    /\ fn = IdleFn
    /\ sub = IdleSub
    /\ agg = IdleAgg
    /\ call \in FormatCalls
    /\ proxy = IdleProxy
    /\ search = IdleSearch

\* The normalizers and helpers applied to every input.
SpecFormat == InitFormat /\ [][FormatNext]_vars

(***************************************************************************)
(* The momence-api proxy serving requests.                                 *)
(***************************************************************************)
\* A request arrives: the handler runs to `await req.json()`, or answers
\* at once (OPTIONS, or no MOMENCE_API_TOKEN).
ProxyServe(req) ==
    /\ proxy.pc \in {"idle", "responded"}
    /\ proxy' =
         LET p == [proxy EXCEPT !.req = req, !.upstreamReqs = 0,
                                !.upstream = IdleProxy.upstream]
         IN  IF req.method = "OPTIONS"
             THEN [p EXCEPT !.pc = "responded",
                            !.response = [status |-> HttpOk, body |-> NoBodyText]]
             ELSE IF ~proxy.momenceToken
             THEN [p EXCEPT !.pc = "responded",
                            !.response = ProxyFailure("Momence API not configured")]
             ELSE [p EXCEPT !.pc = "readingBody",
                            !.response = IdleProxy.response]
    /\ UNCHANGED <<agg, call, search>>
    /\ UNCHANGED clientVars
    /\ UNCHANGED routingVars

\* req.json() settles: the switch either throws or issues the upstream
\* request.
ProxyBodyRead ==
    /\ proxy.pc = "readingBody"
    /\ proxy' =
         IF ~proxy.req.bodyOk
         THEN [proxy EXCEPT !.pc = "responded",
                            !.response = ProxyFailure("Unexpected end of JSON input")]
         ELSE IF SwitchError(proxy.req) # ""
         THEN [proxy EXCEPT !.pc = "responded",
                            !.response = ProxyFailure(SwitchError(proxy.req))]
         ELSE [proxy EXCEPT !.pc = "fetching", !.upstreamReqs = @ + 1]
    /\ UNCHANGED <<agg, call, search>>
    /\ UNCHANGED clientVars
    /\ UNCHANGED routingVars

\* fetch settles and the handler answers.
ProxyUpstreamRespond(up) ==
    /\ proxy.pc = "fetching"
    /\ proxy' = [proxy EXCEPT !.pc = "responded", !.upstream = up,
                              !.response = AfterUpstream(up)]
    /\ UNCHANGED <<agg, call, search>>
    /\ UNCHANGED clientVars
    /\ UNCHANGED routingVars

ProxyNext ==
    \/ \E req \in ProxyRequests : ProxyServe(req)
    \/ ProxyBodyRead
    \/ \E up \in UpstreamOutcomes : ProxyUpstreamRespond(up)

\* MOMENCE_API_TOKEN is set or not; no request has arrived.
InitProxy ==
    /\ creds = [authToken |-> TRUE, username |-> TRUE, password |-> TRUE]
    /\ accessToken = EmptyString
    /\ refreshToken = EmptyString
    /\ issued = 0
    /\ tasks = [t \in TaskIds |-> IdleTask]
    /\ openAIApiKey = TRUE
    /\ fn = IdleFn
    /\ sub = IdleSub
    /\ agg = IdleAgg
    /\ call = NoCall
    /\ proxy \in {[IdleProxy EXCEPT !.momenceToken = b] : b \in BOOLEAN}
    /\ search = IdleSearch

SpecProxy == InitProxy /\ [][ProxyNext]_vars

(***************************************************************************)
(* The debounced search of MomenceClientSearch.                            *)
(***************************************************************************)
\* setSearchQuery(q) with a new text (typing, or '' when a customer is
\* chosen): the component renders again, the cleanup of the previous run of
\* the effect runs and then the effect.  React runs the three within the
\* event that changed the text.
SetSearchQuery(q) ==
    /\ q # search.searchQuery
    /\ search' = Effect(Cleanup(search), q)
    /\ UNCHANGED <<agg, call, proxy>>
    /\ UNCHANGED clientVars
    /\ UNCHANGED routingVars

\* The debounce timer fires: the callback invokes momence-api with
\* searchMembers and the searchQuery of the render that set the timer.
TimerFires ==
    /\ search.timer.armed
    /\ Cardinality(search.inflight \cup {search.timer.query}) <= MaxInFlight
    /\ search' = [search EXCEPT !.timer.armed = FALSE,
                                !.sent = [issued |-> TRUE,
                                          query |-> search.timer.query,
                                          current |-> search.searchQuery],
                                !.inflight = @ \cup {search.timer.query}]
    /\ UNCHANGED <<agg, call, proxy>>
    /\ UNCHANGED clientVars
    /\ UNCHANGED routingVars

\* What the invoke of searchMembers resolves to: a payload with members, an
\* empty or missing payload (`data.payload || []`), or an error (thrown, or
\* data null so that data.payload throws).
SearchOutcomes == {"members", "none", "error"}

\* The invoke for query q resolves and the rest of the timer callback runs.
SearchRespond(q, outcome) ==
    /\ q \in search.inflight
    /\ search' = [search EXCEPT
                     !.inflight = @ \ {q},
                     !.searchResults = IF outcome = "members" THEN q ELSE <<>>,
                     !.showResults = IF outcome = "error" THEN @ ELSE TRUE]
    /\ UNCHANGED <<agg, call, proxy>>
    /\ UNCHANGED clientVars
    /\ UNCHANGED routingVars

SearchNext ==
    \/ \E q \in Queries : SetSearchQuery(q)
    \/ TimerFires
    \/ \E q \in Queries, outcome \in SearchOutcomes : SearchRespond(q, outcome)

\* The component after its first render: the effect ran with '' and set no
\* timer.
InitSearch ==
    /\ creds = [authToken |-> TRUE, username |-> TRUE, password |-> TRUE]
    /\ accessToken = EmptyString
    /\ refreshToken = EmptyString
    /\ issued = 0
    /\ tasks = [t \in TaskIds |-> IdleTask]
    /\ openAIApiKey = TRUE
    /\ fn = IdleFn
    /\ sub = IdleSub
    /\ agg = IdleAgg
    /\ call = NoCall
    /\ proxy = IdleProxy
    /\ search = IdleSearch

SpecSearch == InitSearch /\ [][SearchNext]_vars

(***************************************************************************)
(* Selecting a customer in MomenceClientSearch and loading the details.    *)
(***************************************************************************)
\* handleCustomerSelect(customer), to the await in loadMemberDetails: the
\* result list is shown only while no client is selected.  The parent takes
\* the client, the query is emptied (which runs the search effect) and the
\* two detail requests are sent.
SelectCustomer(id) ==
    /\ search.selectedClient = 0
    /\ search' = [Effect(Cleanup(search), <<>>) EXCEPT
                     !.selectedClient = id,
                     !.showResults = FALSE,
                     !.loads = @ \cup {id}]
    /\ UNCHANGED <<agg, call, proxy>>
    /\ UNCHANGED clientVars
    /\ UNCHANGED routingVars

\* clearSelection()
ClearSelection ==
    /\ search.selectedClient # 0
    /\ search' = [search EXCEPT !.selectedClient = 0, !.memberSessions = 0,
                                !.memberMemberships = 0]
    /\ UNCHANGED <<agg, call, proxy>>
    /\ UNCHANGED clientVars
    /\ UNCHANGED routingVars

\* Promise.all of the two detail requests for member `id` settles: each
\* list is stored if its response carries a payload.
DetailsRespond(id, sessionsOk, membershipsOk) ==
    /\ id \in search.loads
    /\ search' = [search EXCEPT
                     !.loads = @ \ {id},
                     !.memberSessions = IF sessionsOk THEN id ELSE @,
                     !.memberMemberships = IF membershipsOk THEN id ELSE @]
    /\ UNCHANGED <<agg, call, proxy>>
    /\ UNCHANGED clientVars
    /\ UNCHANGED routingVars

DetailsNext ==
    \/ \E id \in 1..NClients : SelectCustomer(id)
    \/ ClearSelection
    \/ \E id \in 1..NClients, s \in BOOLEAN, m \in BOOLEAN : DetailsRespond(id, s, m)

\* The component with users who select and clear customers.
SpecDetails == InitSearch /\ [][DetailsNext]_vars

\* The Momence client with a server that may answer 401 without end, where
\* every request gets some response.
SpecClientLive ==
    /\ InitClient
    /\ [][ClientLiveNext]_vars
    /\ \A t \in TaskIds : WF_vars(Responds(t))

\* analyze-ticket and the submission flow alone.
SpecRouting == InitRouting /\ [][RoutingNext]_vars

(***************************************************************************)
(* Claims about the client's 401 protocol.                                 *)
(***************************************************************************)
Running(t) == tasks[t].op \in Ops

\* C1: within one top-level invocation of a client operation a 401 triggers
\* exactly one refresh attempt and at most one retry of the data request; a
\* second 401 makes the operation return its empty value with no further
\* refresh or retry.
C1_OneRefreshOneRetry ==
    \A t \in DOMAIN tasks : Running(t) =>
        /\ tasks[t].refreshReqs <= 1
        /\ tasks[t].dataReqs <= 2
        /\ (tasks[t].n401 >= 1 => tasks[t].refreshReqs = 1)
        /\ (tasks[t].n401 >= 2 =>
                /\ tasks[t].pc = "done"
                /\ tasks[t].result = EmptyValue(tasks[t].op))

\* C2: with a credential missing, every client operation returns its empty
\* value and issues no request, to the auth endpoint or to a data endpoint.
C2_MissingCredentialsNoNetwork ==
    CredsMissing =>
        \A t \in DOMAIN tasks : Running(t) =>
            /\ tasks[t].refreshReqs = 0
            /\ tasks[t].dataReqs = 0
            /\ tasks[t].pc = "done"
            /\ tasks[t].result = EmptyValue(tasks[t].op)

\* C9: an operation whose authenticate() failed returns its empty value
\* without issuing the data GET request.
C9_AuthFailureReturnsEmpty ==
    \A t \in DOMAIN tasks : (Running(t) /\ tasks[t].last = "authFailed") =>
        /\ tasks[t].pc = "done"
        /\ tasks[t].result = EmptyValue(tasks[t].op)

\* C10: when the data request returns 401 and the refresh then fails, the
\* operation returns its empty value and does not issue the data request
\* again.
C10_RefreshFailureReturnsEmpty ==
    \A t \in DOMAIN tasks : (Running(t) /\ tasks[t].last = "refreshFailed") =>
        /\ tasks[t].pc = "done"
        /\ tasks[t].result = EmptyValue(tasks[t].op)

\* C11: provided every request gets some response, every invocation of a
\* client operation eventually returns (its payload or its empty value),
\* whatever the server answers, 401 to every data request included.
C11_EveryInvocationReturns ==
    \A t \in TaskIds : Running(t) ~> (tasks[t].pc = "done")

(***************************************************************************)
(* Claims about the token state.                                           *)
(***************************************************************************)
\* The step in which invocation t's password grant or refresh grant got a
\* success response.
TokenStepSucceeded(t) ==
    /\ tasks[t].pc \in {"auth_wait", "refresh_wait"}
    /\ tasks'[t].last = IF tasks[t].pc = "auth_wait" THEN "authenticated"
                                                      ELSE "refreshed"
    /\ issued' = issued + 1

\* C12: the token pair changes only in a successful authenticate step or a
\* successful refresh step (a failed authenticate, a failed refresh and every
\* data response leave it as it was), and an access token that is non-empty
\* never becomes empty again.
C12_TokensChangeOnlyOnSuccess ==
    [][/\ (accessToken' # accessToken \/ refreshToken' # refreshToken) =>
              \E t \in DOMAIN tasks : TokenStepSucceeded(t)
       /\ ~Falsy(accessToken) => ~Falsy(accessToken')]_vars

C12_Witness ==
    \E t \in DOMAIN tasks :
        /\ tasks[t].last = "refreshFailed"
        /\ tasks[t].pc = "done"
        /\ ~Falsy(accessToken)

\* C13: authenticate() and refreshAccessToken() return false for every
\* failure of the token request (network error, non-success status, malformed
\* body) and leave the token state alone; each returns true only when the
\* request succeeded and the new access token was stored.
C13_TokenCallsReportTheOutcome ==
    [][\A t \in DOMAIN tasks :
          LET stored == issued' = issued + 1 /\ accessToken' = issued' IN
          /\ (tasks[t].pc = "auth_wait" /\ tasks'[t].pc # "auth_wait") =>
                /\ tasks'[t].last \in {"authenticated", "authFailed"}
                /\ tasks'[t].last = "authenticated" <=> stored
                /\ tasks'[t].last = "authFailed" =>
                      UNCHANGED <<accessToken, refreshToken, issued>>
          /\ (tasks[t].pc = "refresh_wait" /\ tasks'[t].pc # "refresh_wait") =>
                /\ tasks'[t].last \in {"refreshed", "refreshFailed", "authFailed"}
                /\ tasks'[t].last = "refreshed" <=> stored
                /\ tasks'[t].last # "refreshed" =>
                      UNCHANGED <<accessToken, refreshToken, issued>>
          \* authenticate() without credentials: false, and no request
          /\ (tasks[t].pc = "idle" /\ tasks'[t].last = "authFailed") =>
                /\ CredsMissing
                /\ UNCHANGED <<accessToken, refreshToken, issued>>]_vars

C13_Witness ==
    \E t \in DOMAIN tasks :
        /\ tasks[t].last = "authFailed"
        /\ tasks[t].pc = "done"
        /\ ~CredsMissing

\* C14: a refresh request is sent only in reaction to a 401 response to a
\* data request of the same invocation: the invocation was waiting for its
\* data response, the response is one more 401, and the invocation has sent
\* as many refresh requests as it has got 401 responses.
C14_RefreshOnlyAfter401 ==
    [][\A t \in DOMAIN tasks :
          /\ (tasks'[t].pc = "refresh_wait" /\ tasks[t].pc # "refresh_wait") =>
                /\ tasks[t].pc = "data_wait"
                /\ tasks'[t].op = tasks[t].op
                /\ tasks'[t].n401 = tasks[t].n401 + 1
          /\ tasks'[t].refreshReqs = tasks'[t].n401]_vars

C14_Witness ==
    \E t \in DOMAIN tasks :
        /\ tasks[t].pc = "refresh_wait"
        /\ tasks[t].n401 = 2
        /\ tasks[t].last = "refreshed"

\* C19: when operations are started together while no access token is
\* held, each may send its own password grant; the stored pair always comes
\* from one token response, the latest one (the refresh token is that
\* response's or absent, never an earlier response's), and an operation none
\* of whose own requests failed returns its payload.
C19_RacingAuthenticationsAreHarmless ==
    /\ issued > 0 => accessToken = issued
    /\ ~Falsy(refreshToken) => refreshToken = accessToken
    /\ \A t \in DOMAIN tasks :
          (tasks[t].pc = "done" /\ ~tasks[t].failed) => tasks[t].result = "payload"

C19_Witness ==
    /\ issued = 2
    /\ \A t \in 1..2 :
          /\ tasks[t].pc = "done"
          /\ tasks[t].last = "authenticated"
          /\ ~tasks[t].failed
          /\ tasks[t].result = "payload"

(***************************************************************************)
(* Claims about getAllSessionsWithDetails.                                  *)
(***************************************************************************)
\* The step in which the detail fetches of a page have all returned.
PageCollected == agg.pc = "details_wait" /\ agg'.pc # "details_wait"

\* The loop ends after the page just collected: it was short, the reported
\* total is covered by the pages fetched, or maxPages pages were asked for.
LoopEnds ==
    LET fetched == Len(agg.requested) IN
    \/ agg.response.len < PageSize
    \/ agg.response.totalCount \in 0..(fetched * PageSize)
    \/ fetched >= agg.maxPages

\* C15: getAllSessionsWithDetails asks for pages 0, 1, 2, ... in order, each
\* of the page size, never more than maxPages of them, and stops as soon as
\* a page is short (or has no rows), or the reported total is covered by the
\* pages fetched, or maxPages pages have been asked for.
C15_PaginationStops ==
    [][/\ Len(agg'.requested) <= agg'.maxPages
       /\ \A i \in 1..Len(agg'.requested) :
              agg'.requested[i] = [page |-> i - 1, pageSize |-> PageSize]
       /\ PageCollected =>
              /\ agg'.pc = "done" <=> LoopEnds
              /\ agg'.pc # "done" =>
                    /\ agg'.pc = "list_wait"
                    /\ Len(agg'.requested) = Len(agg.requested) + 1
       /\ (agg.pc = "list_wait" /\ agg'.pc # "list_wait") =>
              (agg'.pc = "done" <=> agg'.response.len = 0)]_vars

C15_Witness ==
    /\ agg.pc = "done"
    /\ agg.maxPages = 2
    /\ Len(agg.requested) = 1
    /\ agg.response.len = 1
    /\ agg.response.totalCount = Undefined
    /\ Len(agg.allSessions) = 1

\* C16: whatever the detail fetches give, the page just collected adds
\* exactly one entry for each of its sessions; a session whose detail fetch
\* failed is kept, without a detail record; the entries collected before are
\* untouched, and whether a further page is fetched does not depend on the
\* detail fetches.
C16_EverySessionKept ==
    [][/\ PageCollected =>
              LET len == agg.response.len
                  old == Len(agg.allSessions)
              IN  /\ Len(agg'.allSessions) = old + len
                  /\ \A n \in 1..old : agg'.allSessions[n] = agg.allSessions[n]
                  /\ \A i \in 1..len :
                        LET entry == agg'.allSessions[old + i] IN
                        /\ entry.page = agg.currentPage
                        /\ entry.row = i
                        /\ entry.detailedInfo =
                              IF tasks[DetailSlot(i)].result = "payload"
                              THEN "detail" ELSE "null"
                  /\ agg'.pc = "list_wait" <=> ~LoopEnds
       /\ (agg.pc \in {"list_wait", "details_wait"} /\ ~PageCollected) =>
              agg'.allSessions = agg.allSessions]_vars

C16_Witness ==
    /\ agg.pc = "done"
    /\ Len(agg.allSessions) = 2 * PageSize
    /\ agg.allSessions[1].detailedInfo = "null"
    /\ agg.allSessions[2].detailedInfo = "detail"

\* C17: while a page's detail fetches are awaited, the fetch of every row
\* of the page has been started and no getSessions call is in progress;
\* while a page is awaited, no detail fetch is in progress.
C17_FanOutThenJoin ==
    /\ agg.pc = "details_wait" =>
          /\ \A i \in 1..agg.response.len :
                /\ tasks[DetailSlot(i)].op = "getSessionById"
                /\ tasks[DetailSlot(i)].pc \in
                      {"auth_wait", "data_wait", "refresh_wait", "done"}
          /\ tasks[ListSlot].pc = "idle"
    /\ agg.pc = "list_wait" =>
          /\ tasks[ListSlot].op = "getSessions"
          /\ \A t \in AggSlots \ {ListSlot} : tasks[t].pc = "idle"

C17_Witness ==
    /\ agg.pc = "details_wait"
    /\ agg.currentPage = 1
    /\ tasks[DetailSlot(2)].pc = "done"
    /\ tasks[DetailSlot(1)].pc = "refresh_wait"

\* C18: the list is the pages in page order, each page's sessions in the
\* order of its rows: the n-th entry is row ((n - 1) mod PageSize) + 1 of
\* page (n - 1) div PageSize.
C18_PageThenRowOrder ==
    \A n \in 1..Len(agg.allSessions) :
        /\ agg.allSessions[n].page = (n - 1) \div PageSize
        /\ agg.allSessions[n].row = ((n - 1) % PageSize) + 1

C18_Witness ==
    /\ agg.pc = "done"
    /\ Len(agg.allSessions) = PageSize + 1
    /\ agg.allSessions[PageSize + 1].page = 1
    /\ agg.allSessions[1].detailedInfo = "detail"
    /\ agg.allSessions[2].detailedInfo = "null"

\* C30: after any successful authenticate and refresh calls the stored
\* refresh token is the one the server issued last, whichever of the field
\* names refresh_token and refreshToken the response used; it is never
\* empty or undefined once a token has been issued.
C30_RefreshTokenIsTheLatest ==
    issued > 0 => refreshToken = issued

(***************************************************************************)
(* Claims about the normalizers.                                           *)
(***************************************************************************)
\* C32: when the list request for a page k >= 1 of
\* getAllSessionsWithDetails fails or gives no rows, the call asks for no
\* further page and returns what it collected from pages 0..k-1, unchanged.
C32_LaterFailureKeepsPages ==
    [][(/\ agg.pc = "list_wait"
        /\ agg'.pc # "list_wait"
        /\ agg.currentPage >= 1
        /\ (tasks[ListSlot].result # "payload" \/ agg'.response.len = 0)) =>
          /\ agg'.pc = "done"
          /\ agg'.requested = agg.requested
          /\ agg'.allSessions = agg.allSessions
          /\ Len(agg'.allSessions) = agg.currentPage * PageSize
          /\ \A n \in 1..Len(agg'.allSessions) :
                agg'.allSessions[n].page < agg.currentPage]_vars

\* The second page gave no rows and the call returned the first page.
C32_Witness ==
    /\ agg.pc = "done"
    /\ agg.currentPage = 1
    /\ Len(agg.requested) = 2
    /\ agg.response.len = 0
    /\ Len(agg.allSessions) = PageSize

\* C20: no membership gives inactive; otherwise isFrozen gives frozen, even
\* with an end date in the past; otherwise an end date strictly before now
\* gives expired; otherwise (an absent end date included) active.  A
\* membership without an end date is never expired.
C20_MembershipStatusOrder ==
    (call.method = "getMembershipStatus" /\ call.pc = "returned") =>
        LET m == call.membership
            past == m.endDate \in Instants /\ m.endDate < call.now
        IN  /\ call.result =
                  IF ~m.present THEN "inactive"
                  ELSE IF m.isFrozen THEN "frozen"
                  ELSE IF past THEN "expired"
                  ELSE "active"
            /\ m.endDate \in {Undefined, Null, EmptyString} =>
                  call.result # "expired"

C20_Witness ==
    /\ call.method = "getMembershipStatus"
    /\ call.pc = "returned"
    /\ call.membership.present
    /\ call.membership.isFrozen
    /\ call.membership.endDate = 1
    /\ call.now = 3
    /\ call.result = "frozen"

(***************************************************************************)
(* Claims about the normalizers and helpers.                               *)
(***************************************************************************)
Returned(method) == call.method = method /\ call.pc = "returned"

\* C21: getActivityLevel gives every visit count exactly one band, and the
\* upper end of each band is inclusive: 0 is new, 1..5 beginner, 6..20
\* regular, 21..50 frequent, and more than 50 vip.
C21_ActivityLevelBands ==
    Returned("getActivityLevel") =>
        LET n == call.totalVisits
            band == call.result
        IN  /\ (band = "new") <=> (n = 0)
            /\ (band = "beginner") <=> (n \in 1..5)
            /\ (band = "regular") <=> (n \in 6..20)
            /\ (band = "frequent") <=> (n \in 21..50)
            /\ (band = "vip") <=> (n > 50)

\* A count at the upper end of a band has been mapped, and so has one above 50.
C21_Witness ==
    /\ Returned("getActivityLevel")
    /\ call.totalVisits = 50
    /\ call.result = "frequent"

\* the summary and the detail record both carry the field, with different values
ConflictingText(a, b) == a # Absent /\ b # Absent /\ a # b
ConflictingCount(a, b) == a # Undefined /\ b # Undefined /\ a # b

\* C22: in formatSessionData, every field that the summary record and its
\* detailedInfo both carry with different values has the detail record's
\* value in the normalized session.
C22_DetailWinsOnConflict ==
    (Returned("formatSessionData") /\ call.session.detailedInfo.present) =>
        LET summary == call.session
            detail == call.session.detailedInfo
            out == call.result
        IN  /\ ConflictingText(summary.name, detail.name) => out.name = detail.name
            /\ ConflictingCount(summary.capacity, detail.capacity)
                   => out.capacity = detail.capacity
            /\ ConflictingCount(summary.bookingCount, detail.bookingCount)
                   => out.bookingCount = detail.bookingCount
            /\ ConflictingText(summary.onlineStreamUrl, detail.onlineStreamUrl)
                   => out.onlineStreamUrl = detail.onlineStreamUrl

\* C23: in every normalized session whose capacity and bookingCount are
\* numbers, availableSpots = capacity - bookingCount and, when capacity > 0,
\* utilizationRate = round(bookingCount / capacity * 100), for the capacity
\* and bookingCount of that same normalized record.
C23_DerivedFieldsMatchTheRecord ==
    Returned("formatSessionData") =>
        LET out == call.result
        IN  (out.capacity # Undefined /\ out.bookingCount # Undefined) =>
                /\ out.availableSpots = out.capacity - out.bookingCount
                /\ out.capacity > 0 =>
                       out.utilizationRate
                           = RoundedPercent(out.bookingCount, out.capacity)

\* C24: whatever source fields are absent, no field of the output of
\* formatCustomerData or formatSessionData is undefined, and a field whose
\* source is absent holds an empty default ('' or an empty array or 0).
C24_NoUndefinedFields ==
    /\ Returned("formatCustomerData") =>
           LET customer == call.customer
               out == call.result
           IN  /\ out.id # Undefined
               /\ out.firstName # Absent
               /\ out.firstSeen # Absent
               /\ out.totalVisits # Undefined
               /\ out.customerTags # Undefined
               /\ customer.firstName = Absent => out.firstName = ""
               /\ customer.firstSeen = Absent => out.firstSeen = ""
               /\ customer.customerTags = Undefined => out.customerTags = 0
    /\ Returned("formatSessionData") =>
           LET session == call.session
               out == call.result
           IN  /\ out.name # Absent
               /\ out.capacity # Undefined
               /\ out.bookingCount # Undefined
               /\ out.onlineStreamUrl # Absent
               /\ out.tags # Undefined

\* the entries of the location table whose key the name contains, case aside
MatchingKeys(name) ==
    {k \in DOMAIN locationMap :
        Includes(toLowerCase(name), toLowerCase(locationMap[k].key))}

IsKey(name) == \E k \in DOMAIN locationMap : locationMap[k].key = name

\* C25: getLocationId gives a key of the table that key's id; any other name
\* that contains a key, case aside, the id of such a key; every other name,
\* and no name, no id, and then the session request carries no locationId.
C25_LocationResolution ==
    Returned("getSessionsByLocation") =>
        LET name == call.locationName
            id == call.result.locationId
        IN  /\ IsKey(name) =>
                \E k \in DOMAIN locationMap :
                    locationMap[k].key = name /\ id = locationMap[k].value
            /\ (~IsKey(name) /\ MatchingKeys(name) # {}) =>
                \E k \in MatchingKeys(name) : id = locationMap[k].value
            /\ (~IsKey(name) /\ MatchingKeys(name) = {}) =>
                /\ id = Absent
                /\ call.result.query.locationId = Absent

\* C26: when startsBefore is not given, the cutoff of the session request is
\* 00:00:00 of the day after the current day, whatever the time of day.
C26_CutoffIsStartOfNextDay ==
    Returned("getSessionsByLocation") =>
        call.result.query.startsBefore = [day |-> call.now.day + 1, second |-> 0]

ProxyResponded == proxy.pc = "responded" /\ proxy.req.method # "OPTIONS"

ProxyFailed ==
    /\ proxy.response.status = 500
    /\ proxy.response.body.kind = "error"
    /\ proxy.response.body.value # ""

\* C28: the momence-api proxy answers every request other than OPTIONS with
\* 200 and the JSON value the upstream API sent, or with 500 and {error:
\* string}.  A missing token, an unknown action, a missing memberId or
\* sessionId and an upstream status that is not a success each give the 500
\* answer, the first three without any upstream request.
C28_ProxyAnswers ==
    ProxyResponded =>
        /\ \/ /\ proxy.response.status = 200
              /\ proxy.upstreamReqs = 1
              /\ proxy.upstream.fetched
              /\ proxy.upstream.body.kind = "json"
              /\ proxy.response.body.kind = "json"
              /\ proxy.response.body.value = proxy.upstream.body.value
           \/ ProxyFailed
        /\ ~proxy.momenceToken => (ProxyFailed /\ proxy.upstreamReqs = 0)
        /\ proxy.req.action \notin
               {"searchMembers", "getMemberSessions", "getMemberMemberships",
                "getSessions", "getSessionDetails"}
               => (ProxyFailed /\ proxy.upstreamReqs = 0)
        /\ ( /\ proxy.req.action \in {"getMemberSessions", "getMemberMemberships"}
             /\ proxy.req.memberId = Undefined )
               => (ProxyFailed /\ proxy.upstreamReqs = 0)
        /\ (proxy.req.action = "getSessionDetails" /\ proxy.req.sessionId = Undefined)
               => (ProxyFailed /\ proxy.upstreamReqs = 0)
        /\ ( /\ proxy.upstreamReqs = 1
             /\ proxy.upstream.fetched
             /\ proxy.upstream.status \notin 200..299 )
               => ProxyFailed

\* An upstream status that is not a success has been turned into a 500.
C28_Witness ==
    /\ ProxyResponded
    /\ proxy.req.action = "getMemberSessions"
    /\ proxy.req.memberId = 1
    /\ proxy.upstreamReqs = 1
    /\ proxy.upstream.fetched
    /\ proxy.upstream.status = 401
    /\ ProxyFailed

\* C29: whatever the edits of the query and the firings of the timer, a
\* searchMembers request is issued only with a query of at least 2
\* characters that is the text of the search box when the timer fires.  (A
\* step that disarms the timer and leaves the text alone is a firing.)
C29_SearchOnlyCurrentQuery ==
    [][(/\ search.timer.armed
        /\ ~search'.timer.armed
        /\ search'.searchQuery = search.searchQuery) =>
          /\ search'.sent.issued
          /\ Len(search'.sent.query) >= 2
          /\ search'.sent.query = search.searchQuery]_vars

\* A request has been sent for "ab"; the text was then cut to "a", which
\* sets no timer.
C29_Witness ==
    /\ search.sent.issued
    /\ search.sent.query = <<"a", "b">>
    /\ search.searchQuery = <<"a">>
    /\ ~search.timer.armed

(***************************************************************************)
(* Claims about analyze-ticket and the submission flow.                    *)
(***************************************************************************)
Responded == fn.pc = "responded"
Decision == fn.resp.body
OverrideApplies == fn.req.subcategory \in DOMAIN SUBCATEGORY_ROUTING

\* C3: for a ticket whose subcategory is in the override table, whatever the
\* classifier says and whatever the category, the returned decision has the
\* table's department and priority.
C3_SubcategoryOverrideWins ==
    (Responded /\ fn.outcome = "classified" /\ OverrideApplies) =>
        /\ Decision.department = SUBCATEGORY_ROUTING[fn.req.subcategory].department
        /\ Decision.priority = SUBCATEGORY_ROUTING[fn.req.subcategory].priority

ClassificationFailed == fn.outcome \in ClassifierFailures \cup {"nokey"}

\* C4: when the classification step fails, the returned decision is
\* department Operations, priority medium, no tags, no escalation and
\* confidence 0, whatever the category and subcategory.
C4_FailureGivesFallback ==
    (Responded /\ ClassificationFailed) =>
        /\ Decision.department = "Operations"
        /\ Decision.priority = "medium"
        /\ Decision.suggestedTags = <<>>
        /\ Decision.needsEscalation = FALSE
        /\ Decision.routingConfidence = 0

C4_Witness ==
    /\ Responded
    /\ fn.outcome = "unparsable"
    /\ fn.req.subcategory = "Theft"
    /\ fn.req.category = "Global"

\* C5 as stated: every request is answered with status 200 and a body
\* that is the live decision or the fallback decision.
C5_AlwaysOkWithDecision ==
    Responded =>
        /\ fn.resp.status = 200
        /\ fn.resp.kind \in {"live", "fallback"}

\* C5, amended: every request is answered with status 200; the body of the
\* answer to a request other than OPTIONS is the live decision or the
\* fallback decision, and the answer to OPTIONS has no body.
C5_OkAndDecisionUnlessOptions ==
    Responded =>
        /\ fn.resp.status = 200
        /\ fn.req.method # "OPTIONS" => fn.resp.kind \in {"live", "fallback"}
        /\ fn.req.method = "OPTIONS" => fn.resp.kind = "empty"

C5_Witness ==
    /\ Responded
    /\ fn.outcome = "badrequest"
    /\ fn.resp.kind = "fallback"

\* C27: every decision analyze-ticket returns, whatever the classifier
\* answered, has a priority among critical, high, medium and low and a
\* routingConfidence from 0 to 1 (0..10 in tenths).
C27_DecisionFieldsInRange ==
    (Responded /\ fn.resp.kind \in {"live", "fallback"}) =>
        /\ Decision.priority \in {"critical", "high", "medium", "low"}
        /\ Decision.routingConfidence \in 0..10

\* C6: whatever the routing call gave (a live decision, the fallback, an
\* error or an exception), the submission went on to attempt the insert.
C6_InsertAlwaysAttempted ==
    sub.routingOutcome # "none" =>
        /\ sub.insertAttempted
        /\ sub.pc \in {"inserting", "notifying", "done", "failed"}

C6_Witness ==
    /\ sub.routingOutcome = "throw"
    /\ sub.insertAttempted
    /\ sub.pc = "inserting"

PriorityRank(p) ==
    CASE p = "low" -> 1 [] p = "medium" -> 2 [] p = "high" -> 3
      [] p = "critical" -> 4 [] OTHER -> 0

\* C8: the priority stored on the ticket is the higher of the user's and
\* the decision's on low < medium < high < critical, and is never lower than
\* the user's.
C8_PriorityNeverDowngraded ==
    sub.insertAttempted =>
        /\ PriorityRank(sub.ticket.priority) >= PriorityRank(sub.userPriority)
        /\ (sub.hasRouting /\ PriorityRank(sub.aiRouting.priority) > 0) =>
              /\ sub.ticket.priority \in {sub.userPriority, sub.aiRouting.priority}
              /\ PriorityRank(sub.ticket.priority) >= PriorityRank(sub.aiRouting.priority)

C8_Witness ==
    /\ sub.insertAttempted
    /\ sub.userPriority = "medium"
    /\ sub.hasRouting
    /\ sub.aiRouting.priority = "critical"
    /\ sub.ticket.priority = "critical"

\* the routing step of the submission in progress gave no live decision:
\* analyze-ticket answered with its fallback, or the invocation gave an
\* error or threw
RoutingDegraded ==
    \/ sub.routingOutcome \in {"error", "throw"}
    \/ sub.hasRouting /\ sub.aiRouting.error # ""

\* C31: when classification fails (analyze-ticket answers with its
\* fallback, or the invocation itself errors), the priority stored on the
\* ticket is the priority the user selected, for every user priority.
C31_FailureKeepsUserPriority ==
    (sub.insertAttempted /\ RoutingDegraded) =>
        sub.ticket.priority = sub.userPriority

\* customer.activeMemberships?.[0]
FirstMembership(list) == IF Len(list) = 0 THEN NoMembership ELSE list[1]

\* C33: for every list of active memberships and every current time, the
\* status the search component shows is the membershipStatus the client's
\* normalizer computes from the first membership of the same list.
C33_ShownStatusIsNormalizedStatus ==
    Returned("MomenceClientSearch.getMembershipStatus") =>
        call.result
            = getMembershipStatus(FirstMembership(call.memberMemberships), call.now)

\* C34: the activityLevel of the record formatCustomerData produces is the
\* band of that record's totalVisits, for every raw member.
C34_ActivityLevelOfTotalVisits ==
    Returned("formatCustomerData") =>
        call.result.activityLevel = getActivityLevel(call.result.totalVisits)

\* C35: whatever the order of select, clear and response events, the
\* session and membership lists shown for the selected client are lists
\* fetched for that client (or still empty).
C35_ListsBelongToSelectedClient ==
    search.selectedClient # 0 =>
        /\ search.memberSessions \in {0, search.selectedClient}
        /\ search.memberMemberships \in {0, search.selectedClient}

\* C36: whatever the order of query edits, timer firings and search
\* responses, the result list is open only while the query has at least 2
\* characters, and the members it shows are those found for the most
\* recently issued search.
C36_ResultsOfLatestSearch ==
    /\ search.showResults => Len(search.searchQuery) >= MinQueryLength
    /\ (search.showResults /\ search.searchResults # <<>>) =>
           search.searchResults = search.sent.query

====
